---- MODULE Spec2Model ----
(***************************************************************************)
(* A model of the GameLib audio mixer (src/trunk/Mixer.cs): the channel    *)
(* array, reservations, groups, the play policies of Mixer.StartPlaying,   *)
(* Channel.StartPlaying / StopPlaying / Mix and the device callback        *)
(* Mixer.FillBuffer, with application threads and the callback thread      *)
(* interleaved at the granularity of the code's lock regions.              *)
(***************************************************************************)
EXTENDS Integers, Sequences, FiniteSets, TLC

(* ------------------------------------------------------------------ *)
(* Bounds of the model                                                  *)
(* ------------------------------------------------------------------ *)
MaxChannels == 2      \* largest argument given to AllocateChannels
MaxTime == 1          \* Timing.Ticks runs over 0..MaxTime
MaxPlays == 2         \* cap on AudioSource.playing (it is never decremented)
NumThreads == 2       \* application threads that may be inside Mixer.StartPlaying
MaxPriority == 1      \* source priorities are drawn from 0..MaxPriority

(* ------------------------------------------------------------------ *)
(* Program constants                                                    *)
(* ------------------------------------------------------------------ *)
Infinite == -1
FreeChannel == -1
MaxVolume == 256
MaxInt == 2147483647   \* int.MaxValue
RateOne == 1000       \* the playback rate 1f; rates are in thousandths

Threads == 1..NumThreads
Sources == {"sample", "stream"}   \* a SampleSource and a StreamSource over a stream that may not seek
NoSource == "null"                \* Channel.source == null
Min(a, b) == IF a < b THEN a ELSE b

VARIABLES
  init,        \* Mixer.init
  chans,       \* Mixer.chans: a sequence of channel records (index i is TLA+ index i+1)
  reserved,    \* Mixer.reserved
  groups,      \* Mixer.groups: a sequence of [present, list]
  playPolicy,  \* Mixer.playPolicy
  srcs,        \* the AudioSource objects: priority, playing, position, length
  now,         \* Timing.Ticks
  calls,       \* per application thread: its position inside Mixer.StartPlaying / Play
  cb,          \* the device callback: -1 when not running, else the next channel index
  ev,          \* the handler invocations made by the last step, in order
  last,        \* the play request that the last step completed, with its result
  raced,       \* per thread: a channel changed status under its call since the call began
  lk           \* per thread: the monitors it holds and the lock operations it has yet to do

vars == <<init, chans, reserved, groups, playPolicy, srcs, now, calls, cb, ev, last, raced, lk>>

\* The threads that take locks: 0 is the thread of the device callback.
LockThreads == 0..NumThreads

\* No thread holds a monitor or is inside an operation.
NoLocks == [t \in LockThreads |-> [held |-> <<>>, todo |-> <<>>]]

(* ------------------------------------------------------------------ *)
(* Channel                                                              *)
(* ------------------------------------------------------------------ *)
\* new Channel(n): every field has its C# default, volume is MaxVolume and rate is 1f.
NewChannel(n) ==
  [number |-> n, source |-> NoSource, paused |-> FALSE, loops |-> 0, fade |-> "None",
   timeout |-> 0, priority |-> 0, position |-> 0, startTime |-> 0, fadeStart |-> 0,
   fadeTime |-> 0, fadeVolume |-> 0, volume |-> MaxVolume, rate |-> RateOne]

\* An array slot holding null.
NullChannel == [NewChannel(0) EXCEPT !.number = -1]
IsNull(ch) == ch.number = -1

\* Channel.Status
Status(ch) == IF ch.source = NoSource THEN "Stopped" ELSE IF ch.paused THEN "Paused" ELSE "Playing"

\* Channel.Age
Age(ch, t) == IF ch.source = NoSource THEN 0 ELSE t - ch.startTime

\* Channel.EffectiveVolume (source volume is MaxVolume throughout the model)
EffectiveVolume(ch) == ch.volume

Event(kind, ch, locked) ==
  [kind |-> kind, chan |-> ch.number, src |-> ch.source, locked |-> locked]

\* Variants of StopPlaying that the claims about the finished handlers must tell from it:
\* one without the test of source, one that calls the mixer's hook before the channel's
\* handlers, one that calls the handlers and leaves the source bound.
StopPlayingKeepsSource(ch, locked) ==
  IF ch.source = NoSource THEN [ch |-> ch, ev |-> <<>>]
  ELSE [ch |-> ch,
        ev |-> <<Event("Finished", ch, locked), Event("ChannelFinished", ch, locked)>>]
StopPlayingUnguarded(ch, locked) ==
  [ch |-> [ch EXCEPT !.source = NoSource],
   ev |-> <<Event("Finished", ch, locked), Event("ChannelFinished", ch, locked)>>]
StopPlayingHookFirst(ch, locked) ==
  IF ch.source = NoSource THEN [ch |-> ch, ev |-> <<>>]
  ELSE [ch |-> [ch EXCEPT !.source = NoSource],
        ev |-> <<Event("ChannelFinished", ch, locked), Event("Finished", ch, locked)>>]

\* Channel.StopPlaying: the handlers run while source is still set, then source = null.
\* locked says whether the caller holds the channel's lock. source.playing is untouched.
StopPlaying(ch, locked) ==
  IF ch.source = NoSource THEN [ch |-> ch, ev |-> <<>>]
  ELSE [ch |-> [ch EXCEPT !.source = NoSource],
        ev |-> <<Event("Finished", ch, locked), Event("ChannelFinished", ch, locked)>>]

\* A variant of StartPlaying that binds without stopping what the channel plays.
StartPlayingNoStop(ch, ss, s, loops, fade, fadeMs, timeoutMs, t, locked) ==
  IF (~ss[s].canRewind /\ loops # 0) \/ (~ss[s].canSeek /\ ss[s].playing > 0)
  THEN [ch |-> ch, srcs |-> ss, ev |-> <<>>, threw |-> TRUE]
  ELSE LET b == [ch EXCEPT !.source = s, !.loops = loops, !.fade = fade,
                           !.timeout = timeoutMs, !.priority = ss[s].priority,
                           !.position = 0, !.paused = FALSE, !.startTime = t,
                           !.fadeTime = IF fade # "None" THEN fadeMs ELSE @,
                           !.fadeVolume = IF fade = "In" THEN 0 ELSE @,
                           !.fadeStart = IF fade # "None" THEN t ELSE @]
       IN [ch |-> b, srcs |-> [ss EXCEPT ![s].playing = @ + 1],
           ev |-> <<Event("Bound", b, locked)>>, threw |-> FALSE]

\* A variant of StartPlaying without the two argument checks.
StartPlayingUnchecked(ch, ss, s, loops, fade, fadeMs, timeoutMs, t, locked) ==
  LET st == StopPlaying(ch, locked)
      b == [st.ch EXCEPT !.source = s, !.loops = loops, !.fade = fade,
                         !.timeout = timeoutMs, !.paused = FALSE, !.priority = ss[s].priority,
                         !.position = 0, !.startTime = t,
                         !.fadeTime = IF fade # "None" THEN fadeMs ELSE @,
                         !.fadeVolume = IF fade = "In" THEN 0 ELSE @,
                         !.fadeStart = IF fade # "None" THEN t ELSE @]
  IN [ch |-> b, srcs |-> [ss EXCEPT ![s].playing = @ + 1],
      ev |-> st.ev \o <<Event("Bound", b, locked)>>, threw |-> FALSE]

\* A variant of StartPlaying that checks rewinding but not whether the source is in use.
StartPlayingNoSeekCheck(ch, ss, s, loops, fade, fadeMs, timeoutMs, t, locked) ==
  LET st == StopPlaying(ch, locked) IN
  IF ~ss[s].canRewind /\ loops # 0
  THEN [ch |-> st.ch, srcs |-> ss, ev |-> st.ev, threw |-> TRUE]
  ELSE LET b == [st.ch EXCEPT !.source = s, !.loops = loops, !.fade = fade,
                              !.timeout = timeoutMs, !.paused = FALSE,
                              !.priority = ss[s].priority,
                              !.position = 0, !.startTime = t,
                              !.fadeTime = IF fade # "None" THEN fadeMs ELSE @,
                              !.fadeVolume = IF fade = "In" THEN 0 ELSE @,
                              !.fadeStart = IF fade # "None" THEN t ELSE @]
       IN [ch |-> b, srcs |-> [ss EXCEPT ![s].playing = @ + 1],
           ev |-> st.ev \o <<Event("Bound", b, locked)>>, threw |-> FALSE]

\* A variant of StartPlaying that leaves the paused flag as it finds it.
StartPlayingKeepsPause(ch, ss, s, loops, fade, fadeMs, timeoutMs, t, locked) ==
  LET st == StopPlaying(ch, locked) IN
  IF (~ss[s].canRewind /\ loops # 0) \/ (~ss[s].canSeek /\ ss[s].playing > 0)
  THEN [ch |-> st.ch, srcs |-> ss, ev |-> st.ev, threw |-> TRUE]
  ELSE LET b == [st.ch EXCEPT !.source = s, !.loops = loops, !.fade = fade,
                              !.timeout = timeoutMs, !.priority = ss[s].priority,
                              !.position = 0, !.startTime = t,
                              !.fadeTime = IF fade # "None" THEN fadeMs ELSE @,
                              !.fadeVolume = IF fade = "In" THEN 0 ELSE @,
                              !.fadeStart = IF fade # "None" THEN t ELSE @]
       IN [ch |-> b, srcs |-> [ss EXCEPT ![s].playing = @ + 1],
           ev |-> st.ev \o <<Event("Bound", b, locked)>>, threw |-> FALSE]

\* Channel.StartPlaying: StopPlaying() first, then the two argument checks, then the binding.
\* Returns the channel, the sources, the handler invocations and whether it threw.
ChannelStartPlaying(ch, ss, s, loops, fade, fadeMs, timeoutMs, t, locked) ==
  LET st == StopPlaying(ch, locked) IN
  IF (~ss[s].canRewind /\ loops # 0) \/ (~ss[s].canSeek /\ ss[s].playing > 0)
  THEN [ch |-> st.ch, srcs |-> ss, ev |-> st.ev, threw |-> TRUE]
  ELSE LET b == [st.ch EXCEPT !.source = s, !.loops = loops, !.fade = fade,
                              !.timeout = timeoutMs, !.priority = ss[s].priority,
                              !.position = 0, !.paused = FALSE, !.startTime = t]
           c == IF fade # "None"
                THEN [b EXCEPT !.fadeTime = fadeMs,
                               !.fadeVolume = IF fade = "In" THEN 0 ELSE EffectiveVolume(b),
                               !.fadeStart = t]
                ELSE b
       IN [ch |-> c, srcs |-> [ss EXCEPT ![s].playing = @ + 1],
           ev |-> st.ev \o <<Event("Bound", c, locked)>>, threw |-> FALSE]

(* ------------------------------------------------------------------ *)
(* Channel.Mix                                                          *)
(* ------------------------------------------------------------------ *)
\* C# int division truncates toward zero.
\* a / b of C# ints for b > 0: the quotient is rounded towards zero.
TruncDiv(a, b) ==
  IF a >= 0 \/ a % b = 0 THEN a \div b ELSE (a \div b) + 1

\* a * b of C# ints, for -65536 < a < 65536 and b >= 0: the product modulo 2^32, as a
\* signed 32-bit value. The product is built from the 16-bit halves of b.
Mul32(a, b) ==
  LET m == IF a < 0 THEN -a ELSE a
      p0 == m * (b % 65536)
      lo == p0 % 65536
      hi == (m * (b \div 65536) + p0 \div 65536) % 65536
      pos == IF hi < 32768 THEN hi * 65536 + lo ELSE (hi - 65536) * 65536 + lo
  IN IF a >= 0 \/ pos = -MaxInt - 1 THEN pos ELSE -pos

\* A variant of the loop count update that never counts a loop down.
NextLoopsKept(loops) == loops

\* if(loops!=Mixer.Infinite) loops--;
NextLoops(loops) == IF loops # Infinite THEN loops - 1 ELSE loops

\* The while(true) loop of Channel.Mix with no conversion and no filters, in frames:
\* read = source.ReadFrames(stream, toRead, volume); toRead -= read; if(toRead<=0) break;
\* if(read==0) { if(loops==0) stop; else { Rewind(); position=0; loops-- unless Infinite } }.
\* A source of length 0 reads nothing in every iteration: with loops Infinite the loop never
\* ends (hung); with any other loops the count reaches 0 (a negative one through the
\* wrap-around of the unchecked int) and the channel is stopped.
RECURSIVE ReadLoop(_, _, _, _, _)
ReadLoop(pos, toRead, loops, len, mixed) ==
  LET read == Min(len - pos, toRead)
      left == toRead - read
  IN IF left <= 0
     THEN [pos |-> pos + read, loops |-> loops, mixed |-> mixed + read, end |-> "break"]
     ELSE IF read = 0
          THEN IF loops = 0
               THEN [pos |-> pos, loops |-> loops, mixed |-> mixed, end |-> "stop"]
               ELSE IF len = 0
                    THEN IF loops = Infinite
                         THEN [pos |-> 0, loops |-> loops, mixed |-> mixed, end |-> "hung"]
                         ELSE [pos |-> 0, loops |-> 0, mixed |-> mixed, end |-> "stop"]
                    ELSE ReadLoop(0, left, NextLoops(loops), len, mixed)
          ELSE ReadLoop(pos + read, left, loops, len, mixed + read)

\* The volume of the fade update: fadeVolume + (target-fadeVolume)*(int)fadeSoFar/(int)fadeTime.
FadeVolume(ch, target, fadeSoFar) ==
  ch.fadeVolume + TruncDiv(Mul32(target - ch.fadeVolume, fadeSoFar), ch.fadeTime)

\* Mixer.Format.Frequency, and format.Frequency of the sources, which are in the mixer's format.
MixerFrequency == 44100

\* AudioFormat.FrameSize of the mixer's format and of the sources: 16-bit mono.
FrameSize == 2

\* The float 1f as a product of two rates in thousandths.
UnitRate == RateOne * RateOne

\* Channel.EffectiveRate: source.PlaybackRate*rate, in millionths.
EffectiveRate(ch, ss) == ss[ch.source].rate * ch.rate

\* format.Frequency*rate truncated by the cast to uint, for a rate in millionths that is not
\* negative and a frequency that is a multiple of 100 (which keeps the product in 32 bits).
ScaledFrequency(freq, rate) == ((freq \div 100) * rate) \div 10000

\* A variant of the snap that takes the nearest multiple of 50 in place of the one below.
SnapNearest(freq, rate) == ((ScaledFrequency(freq, rate) + 25) \div 50) * 50

\* format.Frequency = (uint)(format.Frequency*rate)/50*50;
SnapFrequency(freq, rate) == (ScaledFrequency(freq, rate) \div 50) * 50

\* GLMixer.SetupCVT for two formats that differ only in frequency: lenDiv/lenMul is the ratio
\* of the source rate to the destination rate (both are multiples of 50 here).
NativeSetupCVT(srcRate, destRate) == [lenMul |-> destRate \div 50, lenDiv |-> srcRate \div 50]

\* Mixer.SetupCVT(srcFormat, destFormat) for two 16-bit mono formats:
\* if(srcFormat.Equals(destFormat)) { cvt.lenMul=cvt.lenDiv=1; } ... GLMixer.SetupCVT(ref cvt),
\* which has nothing to convert when the formats are equal.
SetupCVT(srcRate, destRate) ==
  IF srcRate = destRate THEN [lenMul |-> 1, lenDiv |-> 1] ELSE NativeSetupCVT(srcRate, destRate)

\* 2^n for the shift counts of the rate branch.
RECURSIVE Pow2(_)
Pow2(n) == IF n = 0 THEN 1 ELSE 2 * Pow2(n - 1)

\* toRead = (len*cvt.lenDiv/cvt.lenMul+shift)>>shift<<shift; in bytes, with shift = FrameSize.
ToRead(len, cvt, shift) == ((((len * cvt.lenDiv) \div cvt.lenMul) + shift) \div Pow2(shift)) * Pow2(shift)

\* A variant of the first test of Mix that lets a paused channel through.
MixSkipsIdleOnly(ch) == ch.source = NoSource

\* if(source==null || paused) return;
MixSkips(ch) == ch.source = NoSource \/ ch.paused

\* A variant of the timeout test that stops the channel when its age equals the timeout.
TimedOutAtEqual(ch, t) == ch.timeout # Infinite /\ Age(ch, t) >= ch.timeout

\* if(timeout!=Mixer.Infinite && Age>timeout)
TimedOut(ch, t) == ch.timeout # Infinite /\ Age(ch, t) > ch.timeout

\* if(fade!=Fade.None) { fadeSoFar = Timing.Ticks-fadeStart; if(fadeSoFar>fadeTime) ... }
FadeEnded(ch, t) == ch.fade # "None" /\ t - ch.fadeStart > ch.fadeTime

\* A variant of the start of the read that leaves the source where the last read left it.
MixStartUnseeked(ch, ss) == ss[ch.source].pos

\* if(source.CanSeek) source.Position = position; the position the read loop starts from.
MixStart(ch, ss) == IF ss[ch.source].canSeek THEN ch.position ELSE ss[ch.source].pos

\* SampleSource.Position set: if(value!=curPos) { if(value<0 || value>length) throw ... }
SeekThrows(ch, ss) ==
  /\ ss[ch.source].canSeek
  /\ ch.position # ss[ch.source].pos
  /\ (ch.position < 0 \/ ch.position > ss[ch.source].length)

\* Channel.Mix(stream, frames, filters) for a source in the mixer's format and no filters.
\* end: "skip" (idle or paused), "timeout", "faded", "eos" (the three calls of StopPlaying),
\* "mixed" (normal return), "silent" (the snapped frequency is 0), "threw"
\* (DivideByZeroException of the fade update, ArgumentOutOfRangeException of the seek), "hung".
\* volume is the volume handed on to the mixing, mixed the number of source frames read, and
\* freq the source frequency of the conversion.
Mix(ch, ss, t, frames, locked) ==
  LET idle == [ch |-> ch, srcs |-> ss, ev |-> <<>>, end |-> "skip", volume |-> 0, mixed |-> 0,
               freq |-> 0]
  IN
  IF MixSkips(ch) THEN idle
  ELSE
  LET s == ch.source
      vol == EffectiveVolume(ch)
      st == StopPlaying(ch, locked)
      stopped(why) == [idle EXCEPT !.ch = st.ch, !.ev = st.ev, !.end = why]
      fadeSoFar == t - ch.fadeStart
      target == IF ch.fade = "In" THEN vol ELSE 0
      fadeOver == FadeEnded(ch, t)
  IN
  IF TimedOut(ch, t) THEN stopped("timeout")
  ELSE IF fadeOver /\ ch.fade = "Out" THEN stopped("faded")
  ELSE IF ch.fade # "None" /\ ~fadeOver /\ ch.fadeTime = 0 THEN [idle EXCEPT !.end = "threw"]
  ELSE
  LET volume == IF ch.fade = "None" THEN vol
                ELSE IF fadeOver THEN target ELSE FadeVolume(ch, target, fadeSoFar)
      ch1 == IF fadeOver THEN [ch EXCEPT !.fade = "None"] ELSE ch
      pos0 == MixStart(ch, ss)
      rate == EffectiveRate(ch, ss)
      freq == IF rate = UnitRate THEN MixerFrequency ELSE SnapFrequency(MixerFrequency, rate)
      toRead == IF rate = UnitRate THEN frames
                ELSE ToRead(frames * FrameSize, SetupCVT(freq, MixerFrequency), FrameSize)
                       \div FrameSize
      r == ReadLoop(pos0, toRead, ch.loops, ss[s].length, 0)
      ss1 == [ss EXCEPT ![s].pos = r.pos]
      ch2 == [ch1 EXCEPT !.loops = r.loops]
  IN
  IF SeekThrows(ch, ss) THEN [idle EXCEPT !.ch = ch1, !.end = "threw"]
  ELSE IF freq = 0
  THEN [ch |-> ch1, srcs |-> [ss EXCEPT ![s].pos = pos0], ev |-> <<>>, end |-> "silent",
        volume |-> volume, mixed |-> 0, freq |-> 0]
  ELSE IF r.end = "stop"
  THEN LET st2 == StopPlaying([ch2 EXCEPT !.position = IF r.loops # ch.loops THEN 0 ELSE @], locked)
       IN [ch |-> st2.ch, srcs |-> ss1, ev |-> st2.ev, end |-> "eos", volume |-> volume,
           mixed |-> r.mixed, freq |-> freq]
  ELSE IF r.end = "hung"
  THEN [ch |-> [ch2 EXCEPT !.position = 0], srcs |-> ss1, ev |-> <<>>, end |-> "hung",
        volume |-> volume, mixed |-> r.mixed, freq |-> freq]
  ELSE [ch |-> [ch2 EXCEPT !.position = r.pos], srcs |-> ss1, ev |-> <<>>, end |-> "mixed",
        volume |-> volume, mixed |-> r.mixed, freq |-> freq]

(* ------------------------------------------------------------------ *)
(* The state after construction and the bookkeeping of a step           *)
(* ------------------------------------------------------------------ *)
FramesPerCallback == 1   \* the frames argument of the device callback

\* A thread outside any play request.
IdleCall ==
  [pc |-> "idle", target |-> 0, src |-> NoSource, loops |-> 0, fade |-> "None", fadeMs |-> 0,
   timeout |-> Infinite, i |-> 0, tried |-> FALSE, policy |-> "Fail", stale |-> FALSE,
   group |-> <<>>]

\* No request completed in the step.
NoResult == [thread |-> 0, target |-> 0, src |-> NoSource, res |-> "none", ret |-> 0]

\* How a call of a mixer operation ended: "done", or the exception it threw.
Ended(group, res) == [NoResult EXCEPT !.target = group, !.res = res]

InFlight == {"scan", "lock", "gstart", "gscan", "glock", "policy"}

\* The static fields of Mixer and the sources as constructed: playPolicy = Fail, reserved = 0,
\* chans and groups null (the empty sequence while init is false).
InitWith(sampleLen, streamLen) ==
  /\ init = FALSE
  /\ chans = <<>>
  /\ reserved = 0
  /\ groups = <<>>
  /\ playPolicy = "Fail"
  /\ srcs = [s \in Sources |->
               [priority |-> 0, playing |-> 0, pos |-> 0, rate |-> RateOne,
                length |-> IF s = "sample" THEN sampleLen ELSE streamLen,
                canSeek |-> s = "sample", canRewind |-> s = "sample"]]
  /\ now = 0
  /\ calls = [t \in Threads |-> IdleCall]
  /\ cb = -1
  /\ ev = <<>>
  /\ last = NoResult
  /\ raced = [t \in Threads |-> FALSE]
  /\ lk = NoLocks

\* A slot that a mixer operation can use: inside the array and not null.
Usable(c) == init /\ c >= 0 /\ c < Len(chans) /\ ~IsNull(chans[c + 1])

StatusChanged ==
  \/ Len(chans') # Len(chans)
  \/ \E k \in 1..Len(chans) :
       \/ (chans[k].source = NoSource) # (chans'[k].source = NoSource)
       \/ IsNull(chans[k]) # IsNull(chans'[k])

\* The step of thread t (0: a step of no thread inside a request) leaves in raced whether
\* another agent changed a channel's status while a thread's request was under way.
Ghost(t) ==
  /\ raced' = [u \in Threads |->
                IF calls'[u].pc \notin InFlight THEN FALSE
                ELSE IF u = t THEN calls[u].pc \in InFlight /\ raced[u]
                ELSE raced[u] \/ StatusChanged]
  /\ lk' = lk

\* The request of thread t for (target, s) ends: it returned ret ("ret"), or it threw ("exc").
Finish(t, target, s, res, ret) ==
  [call |-> IdleCall,
   last |-> [thread |-> t, target |-> target, src |-> s, res |-> res,
             ret |-> IF res = "ret" THEN ret ELSE 0]]
Returned(t, ret) == Finish(t, calls[t].target, calls[t].src, "ret", ret)
Threw(t) == Finish(t, calls[t].target, calls[t].src, "exc", 0)
\* The request goes on from the position c.
Go(c) == [call |-> c, last |-> NoResult]
Do(t, o) == calls' = [calls EXCEPT ![t] = o.call] /\ last' = o.last

(* ------------------------------------------------------------------ *)
(* AudioSource.Play / FadeIn on an explicit channel                      *)
(* ------------------------------------------------------------------ *)
\* A variant of Play on an explicit channel that honours the reservation: a reserved channel
\* is refused with -1.
PlayUnreserved(t, c, s, loops, fade, fadeMs, timeoutMs) ==
  /\ calls[t].pc \notin InFlight
  /\ c >= 0
  /\ srcs[s].playing < MaxPlays
  /\ IF Usable(c) /\ c >= reserved
     THEN LET r == ChannelStartPlaying(chans[c + 1], srcs, s, loops, fade, fadeMs, timeoutMs,
                                       now, TRUE)
          IN /\ chans' = [chans EXCEPT ![c + 1] = r.ch]
             /\ srcs' = r.srcs
             /\ ev' = r.ev
             /\ Do(t, Finish(t, c, s, IF r.threw THEN "exc" ELSE "ret", c))
     ELSE /\ Do(t, Finish(t, c, s, "ret", -1))
          /\ ev' = <<>>
          /\ UNCHANGED <<chans, srcs>>
  /\ UNCHANGED <<init, reserved, groups, playPolicy, now, cb>>
  /\ Ghost(t)

\* Play(loops, timeoutMs, channel) and FadeIn(fadeMs, loops, timeoutMs, channel), channel >= 0:
\* lock(Mixer.Channels[channel]) { Channels[channel].StartPlaying(...); return channel; }
PlayChannel(t, c, s, loops, fade, fadeMs, timeoutMs) ==
  /\ calls[t].pc \notin InFlight
  /\ c >= 0
  /\ srcs[s].playing < MaxPlays
  /\ IF Usable(c)
     THEN LET r == ChannelStartPlaying(chans[c + 1], srcs, s, loops, fade, fadeMs, timeoutMs,
                                       now, TRUE)
          IN /\ chans' = [chans EXCEPT ![c + 1] = r.ch]
             /\ srcs' = r.srcs
             /\ ev' = r.ev
             /\ Do(t, Finish(t, c, s, IF r.threw THEN "exc" ELSE "ret", c))
     ELSE /\ Do(t, Finish(t, c, s, "exc", 0))
          /\ ev' = <<>>
          /\ UNCHANGED <<chans, srcs>>
  /\ UNCHANGED <<init, reserved, groups, playPolicy, now, cb>>
  /\ Ghost(t)

(* ------------------------------------------------------------------ *)
(* Mixer.StartPlaying: FreeChannel or a group                           *)
(* ------------------------------------------------------------------ *)
ToGroup(group) == -group - 2

\* GetGroup does not throw for this id.
ValidGroup(group) ==
  /\ init
  /\ ToGroup(group) >= 0
  /\ ToGroup(group) < Len(groups)
  /\ groups[ToGroup(group) + 1].present

GetGroup(group) == groups[ToGroup(group) + 1].list

\* lock(groups) is held by a thread inside a pass over a group's list.
GroupsLocked == \E u \in Threads : calls[u].pc \in {"gscan", "glock"}

\* A variant of the passes that begins at channel 0 whatever the reservation.
FirstIndexZero(target) == 0

\* Where a pass begins: for(int i=reserved; ...) over chans, for(int i=0; ...) over a group.
FirstIndex(target) == IF target = FreeChannel THEN reserved ELSE 0

\* CheckInit(); if(reserved==chans.Length) return -1; then the first pass begins.
MixerStartPlaying(t, target, s, loops, fade, fadeMs, timeoutMs) ==
  /\ calls[t].pc \notin InFlight
  /\ target < 0
  /\ Do(t, IF ~init THEN Finish(t, target, s, "exc", 0)
              ELSE IF reserved = Len(chans) THEN Finish(t, target, s, "ret", -1)
              ELSE Go(
                      [IdleCall EXCEPT !.pc = IF target = FreeChannel THEN "scan" ELSE "gstart",
                                       !.target = target, !.src = s, !.loops = loops,
                                       !.fade = fade, !.fadeMs = fadeMs, !.timeout = timeoutMs,
                                       !.i = FirstIndex(target)]))
  /\ ev' = <<>>
  /\ UNCHANGED <<init, chans, reserved, groups, playPolicy, srcs, now, cb>>
  /\ Ghost(t)

\* The unlocked test of the FreeChannel pass: if(chans[i].Status==AudioStatus.Stopped) tried=true.
ScanFree(t) ==
  LET c == calls[t] IN
  /\ c.pc = "scan"
  /\ ~init \/ c.i < Len(chans)
  /\ Do(t, IF ~Usable(c.i) THEN Threw(t)
              ELSE IF Status(chans[c.i + 1]) = "Stopped"
                   THEN Go([c EXCEPT !.tried = TRUE, !.pc = "lock"])
                   ELSE Go([c EXCEPT !.i = c.i + 1]))
  /\ ev' = <<>>
  /\ UNCHANGED <<init, chans, reserved, groups, playPolicy, srcs, now, cb>>
  /\ Ghost(t)

\* A variant of the locked step that binds the channel without testing its Status again.
ScanFreeLockedUnchecked(t) ==
  LET c == calls[t] IN
  /\ c.pc = "lock"
  /\ srcs[c.src].playing < MaxPlays
  /\ IF ~Usable(c.i)
     THEN /\ Do(t, Threw(t))
          /\ ev' = <<>>
          /\ UNCHANGED <<chans, srcs>>
     ELSE LET r == ChannelStartPlaying(chans[c.i + 1], srcs, c.src, c.loops, c.fade, c.fadeMs,
                                       c.timeout, now, TRUE)
          IN /\ chans' = [chans EXCEPT ![c.i + 1] = r.ch]
             /\ srcs' = r.srcs
             /\ ev' = r.ev
             /\ Do(t, IF r.threw THEN Threw(t) ELSE Returned(t, c.i))
  /\ UNCHANGED <<init, reserved, groups, playPolicy, now, cb>>
  /\ Ghost(t)

\* lock(chans[i]) if(chans[i].Status==AudioStatus.Stopped) { StartPlaying(...); return i; }
ScanFreeLocked(t) ==
  LET c == calls[t] IN
  /\ c.pc = "lock"
  /\ srcs[c.src].playing < MaxPlays
  /\ IF ~Usable(c.i)
     THEN /\ Do(t, Threw(t))
          /\ ev' = <<>>
          /\ UNCHANGED <<chans, srcs>>
     ELSE IF Status(chans[c.i + 1]) = "Stopped"
     THEN LET r == ChannelStartPlaying(chans[c.i + 1], srcs, c.src, c.loops, c.fade, c.fadeMs,
                                       c.timeout, now, TRUE)
          IN /\ chans' = [chans EXCEPT ![c.i + 1] = r.ch]
             /\ srcs' = r.srcs
             /\ ev' = r.ev
             /\ Do(t, IF r.threw THEN Threw(t) ELSE Returned(t, c.i))
     ELSE /\ Do(t, Go([c EXCEPT !.i = c.i + 1, !.pc = "scan"]))
          /\ ev' = <<>>
          /\ UNCHANGED <<chans, srcs>>
  /\ UNCHANGED <<init, reserved, groups, playPolicy, now, cb>>
  /\ Ghost(t)

\* while(!tried) and switch(playPolicy): Fail (default) returns -1 at once, the other
\* policies go on to lock(callback).
EndOfPasses(t) ==
  IF playPolicy = "Fail" THEN Returned(t, -1)
  ELSE Go([calls[t] EXCEPT !.pc = "policy", !.policy = playPolicy])

\* The end of a FreeChannel pass, while(!tried): another pass from reserved unless a
\* Stopped channel was seen, and only then on to switch(playPolicy).
ScanFreeEnd(t) ==
  LET c == calls[t] IN
  /\ c.pc = "scan"
  /\ init /\ c.i >= Len(chans)
  /\ Do(t, IF c.tried THEN EndOfPasses(t)
              ELSE Go([c EXCEPT !.i = FirstIndex(c.target)]))
  /\ ev' = <<>>
  /\ UNCHANGED <<init, chans, reserved, groups, playPolicy, srcs, now, cb>>
  /\ Ghost(t)

\* lock(groups) { group = GetGroup(channel); ... : a pass over the group's list begins.
ScanGroupBegin(t) ==
  LET c == calls[t] IN
  /\ c.pc = "gstart"
  /\ ~GroupsLocked
  /\ Do(t, IF ~ValidGroup(c.target) THEN Threw(t)
              ELSE Go([c EXCEPT !.pc = "gscan", !.i = 0, !.stale = FALSE,
                                 !.group = <<>>]))
  /\ ev' = <<>>
  /\ UNCHANGED <<init, chans, reserved, groups, playPolicy, srcs, now, cb>>
  /\ Ghost(t)

\* One member of the list: if(chan<reserved) continue; then the unlocked test of its Status.
ScanGroup(t) ==
  LET c == calls[t]
      list == GetGroup(c.target)
      chan == list[c.i + 1]
  IN
  /\ c.pc = "gscan"
  /\ c.i < Len(list)
  /\ Do(t, IF chan < reserved THEN Go([c EXCEPT !.i = c.i + 1])
              ELSE IF ~Usable(chan) THEN Threw(t)
              ELSE IF Status(chans[chan + 1]) = "Stopped"
                   THEN Go([c EXCEPT !.tried = TRUE, !.pc = "glock"])
                   ELSE Go([c EXCEPT !.i = c.i + 1]))
  /\ ev' = <<>>
  /\ UNCHANGED <<init, chans, reserved, groups, playPolicy, srcs, now, cb>>
  /\ Ghost(t)

\* lock(chans[chan]) if(chans[chan].Status==AudioStatus.Stopped) { StartPlaying(...); return chan; }
ScanGroupLocked(t) ==
  LET c == calls[t]
      chan == GetGroup(c.target)[c.i + 1]
  IN
  /\ c.pc = "glock"
  /\ srcs[c.src].playing < MaxPlays
  /\ IF ~Usable(chan)
     THEN /\ Do(t, Threw(t))
          /\ ev' = <<>>
          /\ UNCHANGED <<chans, srcs>>
     ELSE IF Status(chans[chan + 1]) = "Stopped"
     THEN LET r == ChannelStartPlaying(chans[chan + 1], srcs, c.src, c.loops, c.fade, c.fadeMs,
                                       c.timeout, now, TRUE)
          IN /\ chans' = [chans EXCEPT ![chan + 1] = r.ch]
             /\ srcs' = r.srcs
             /\ ev' = r.ev
             /\ Do(t, IF r.threw THEN Threw(t) ELSE Returned(t, chan))
     ELSE /\ Do(t, Go([c EXCEPT !.i = c.i + 1, !.pc = "gscan"]))
          /\ ev' = <<>>
          /\ UNCHANGED <<chans, srcs>>
  /\ UNCHANGED <<init, reserved, groups, playPolicy, now, cb>>
  /\ Ghost(t)

\* The end of a pass over the group: lock(groups) is released, then while(!tried).
ScanGroupEnd(t) ==
  LET c == calls[t] IN
  /\ c.pc = "gscan"
  /\ c.i >= Len(GetGroup(c.target))
  /\ Do(t, IF c.tried THEN EndOfPasses(t)
              ELSE Go([c EXCEPT !.pc = "gstart"]))
  /\ ev' = <<>>
  /\ UNCHANGED <<init, chans, reserved, groups, playPolicy, srcs, now, cb>>
  /\ Ghost(t)

(* ------------------------------------------------------------------ *)
(* switch(playPolicy): the choice of the channel to replace             *)
(* ------------------------------------------------------------------ *)

\* The indices the policy loops visit, in order: reserved..Length-1 for FreeChannel, the
\* members of the list that are not < reserved for a group.
FreeCandidates ==
  [k \in 1..(IF Len(chans) > reserved THEN Len(chans) - reserved ELSE 0) |-> reserved + k - 1]
RECURSIVE GroupCandidates(_)
GroupCandidates(list) ==
  IF list = <<>> THEN <<>>
  ELSE IF Head(list) < reserved THEN GroupCandidates(Tail(list))
       ELSE <<Head(list)>> \o GroupCandidates(Tail(list))

\* PlayPolicy.Oldest: int oi=reserved; uint age=0; if(chans[i].Age>age) { age=chans[i].Age; oi=i; }
RECURSIVE OldestScan(_, _, _)
OldestScan(cand, oi, age) ==
  IF cand = <<>> THEN oi
  ELSE LET a == Age(chans[Head(cand) + 1], now)
       IN IF a > age THEN OldestScan(Tail(cand), Head(cand), a)
          ELSE OldestScan(Tail(cand), oi, age)

\* PlayPolicy.Priority: int pi=reserved, prio=int.MaxValue;
\* if(chans[i].Priority<prio) { prio=chans[i].Priority; pi=i; }
RECURSIVE PriorityScan(_, _, _)
PriorityScan(cand, pi, prio) ==
  IF cand = <<>> THEN [pi |-> pi, prio |-> prio]
  ELSE LET p == chans[Head(cand) + 1].priority
       IN IF p < prio THEN PriorityScan(Tail(cand), Head(cand), p)
          ELSE PriorityScan(Tail(cand), pi, prio)

\* PlayPolicy.OldestPriority, second loop: oi=pi; age=0;
\* if(chans[i].Priority==prio && chans[i].Age>age) { oi=i; age=chans[i].Age; }
RECURSIVE OldestOfPriority(_, _, _, _)
OldestOfPriority(cand, prio, oi, age) ==
  IF cand = <<>> THEN oi
  ELSE LET ch == chans[Head(cand) + 1]
       IN IF ch.priority = prio /\ Age(ch, now) > age
          THEN OldestOfPriority(Tail(cand), prio, Head(cand), Age(ch, now))
          ELSE OldestOfPriority(Tail(cand), prio, oi, age)

\* The channel index the policy's loops end with.
Victim(policy, cand) ==
  IF policy = "Oldest" THEN OldestScan(cand, reserved, 0)
  ELSE IF policy = "Priority" THEN PriorityScan(cand, reserved, MaxInt).pi
  ELSE LET p == PriorityScan(cand, reserved, MaxInt)
       IN OldestOfPriority(cand, p.prio, p.pi, 0)

\* The list the local variable group refers to after the passes: the group's list, or the
\* list as it was when the group was removed.
GroupOf(c) == IF c.stale THEN c.group ELSE GetGroup(c.target)

Candidates(c) ==
  IF c.target = FreeChannel THEN FreeCandidates ELSE GroupCandidates(GroupOf(c))

\* The case of switch(playPolicy) the request entered: under lock(callback) (and lock(groups)
\* for a group) it chooses a channel, locks it, calls StartPlaying on it and returns its index.
ApplyPolicy(t) ==
  LET c == calls[t] IN
  /\ c.pc = "policy"
  /\ cb = -1
  /\ c.target = FreeChannel \/ ~GroupsLocked
  /\ srcs[c.src].playing < MaxPlays
  /\ IF ~init \/ \E k \in 1..Len(Candidates(c)) : ~Usable(Candidates(c)[k])
     THEN /\ Do(t, Threw(t))
          /\ ev' = <<>>
          /\ UNCHANGED <<chans, srcs>>
     ELSE LET v == Victim(c.policy, Candidates(c)) IN
          IF ~Usable(v)
          THEN /\ Do(t, Threw(t))
               /\ ev' = <<>>
               /\ UNCHANGED <<chans, srcs>>
          ELSE LET r == ChannelStartPlaying(chans[v + 1], srcs, c.src, c.loops, c.fade,
                                            c.fadeMs, c.timeout, now, TRUE)
               IN /\ chans' = [chans EXCEPT ![v + 1] = r.ch]
                  /\ srcs' = r.srcs
                  /\ ev' = r.ev
                  /\ Do(t, IF r.threw THEN Threw(t) ELSE Returned(t, v))
  /\ UNCHANGED <<init, reserved, groups, playPolicy, now, cb>>
  /\ Ghost(t)

(* ------------------------------------------------------------------ *)
(* Mixer.FillBuffer: the device callback                                *)
(* ------------------------------------------------------------------ *)
ThrewEvent(i) ==
  [kind |-> "Threw", chan |-> i, src |-> NoSource, locked |-> FALSE]

\* The frames of ch's source that the pass r added to the accumulator, if any, with the
\* volume they were mixed at, their number (read) and the source frequency of the conversion.
MixedEvent(ch, r) ==
  IF r.mixed > 0
  THEN <<[kind |-> "Mixed", chan |-> ch.number, src |-> ch.source, locked |-> TRUE,
          volume |-> r.volume, read |-> r.mixed, freq |-> r.freq]>>
  ELSE <<>>

\* lock(callback) { for(i...) lock(chans[i]) chans[i].Mix(stream, frames, eFilters); ... }
\* One step mixes one channel; cb = -1 between callbacks, and -2 once a Mix never returns.
\* An exception of lock(chans[i]) or of Mix leaves the callback.
FillBufferOf(frames) ==
  LET i == IF cb = -1 THEN 0 ELSE cb IN
  /\ init
  /\ cb >= -1
  /\ i < Len(chans)
  /\ IF IsNull(chans[i + 1])
     THEN /\ ev' = <<ThrewEvent(i)>>
          /\ cb' = -1
          /\ UNCHANGED <<chans, srcs>>
     ELSE LET r == Mix(chans[i + 1], srcs, now, frames, TRUE)
          IN /\ chans' = [chans EXCEPT ![i + 1] = r.ch]
             /\ srcs' = r.srcs
             /\ ev' = IF r.end = "threw" THEN <<ThrewEvent(i)>>
                      ELSE MixedEvent(chans[i + 1], r) \o r.ev
             /\ cb' = IF r.end = "threw" THEN -1
                      ELSE IF r.end = "hung" THEN -2
                      ELSE IF i + 1 < Len(chans) THEN i + 1 ELSE -1
  /\ UNCHANGED <<init, reserved, groups, playPolicy, now, calls>>
  /\ last' = NoResult
  /\ Ghost(0)

\* The callback of the main specifications.
FillBuffer == FillBufferOf(FramesPerCallback)

(* ------------------------------------------------------------------ *)
(* Channel operations of application threads                           *)
(* ------------------------------------------------------------------ *)
\* Channel.Stop: lock(this) StopPlaying();
ChannelStop(c) ==
  /\ Usable(c)
  /\ LET r == StopPlaying(chans[c + 1], TRUE)
     IN /\ chans' = [chans EXCEPT ![c + 1] = r.ch]
        /\ ev' = r.ev
  /\ UNCHANGED <<init, reserved, groups, playPolicy, srcs, now, calls, cb>>
  /\ last' = NoResult
  /\ Ghost(0)

\* Channel.Pause: paused=true;
ChannelPause(c) ==
  /\ Usable(c)
  /\ chans' = [chans EXCEPT ![c + 1].paused = TRUE]
  /\ ev' = <<>>
  /\ UNCHANGED <<init, reserved, groups, playPolicy, srcs, now, calls, cb>>
  /\ last' = NoResult
  /\ Ghost(0)

\* Channel.Resume: paused=false;
ChannelResume(c) ==
  /\ Usable(c)
  /\ chans' = [chans EXCEPT ![c + 1].paused = FALSE]
  /\ ev' = <<>>
  /\ UNCHANGED <<init, reserved, groups, playPolicy, srcs, now, calls, cb>>
  /\ last' = NoResult
  /\ Ghost(0)

\* Channel.Position set: lock(this) position=value;
ChannelSetPosition(c, value) ==
  /\ Usable(c)
  /\ chans' = [chans EXCEPT ![c + 1].position = value]
  /\ ev' = <<>>
  /\ UNCHANGED <<init, reserved, groups, playPolicy, srcs, now, calls, cb>>
  /\ last' = NoResult
  /\ Ghost(0)

\* Channel.FadeOut(fadeMs)
ChannelFadeOut(c, fadeMs) ==
  /\ Usable(c)
  /\ chans' = IF chans[c + 1].source = NoSource THEN chans
              ELSE [chans EXCEPT ![c + 1].fade = "Out", ![c + 1].fadeTime = fadeMs,
                                 ![c + 1].fadeStart = now,
                                 ![c + 1].fadeVolume = EffectiveVolume(chans[c + 1])]
  /\ ev' = <<>>
  /\ UNCHANGED <<init, reserved, groups, playPolicy, srcs, now, calls, cb>>
  /\ last' = NoResult
  /\ Ghost(0)

\* AudioSource.Priority = p
SetPriority(s, p) ==
  /\ srcs' = [srcs EXCEPT ![s].priority = p]
  /\ ev' = <<>>
  /\ UNCHANGED <<init, chans, reserved, groups, playPolicy, now, calls, cb>>
  /\ last' = NoResult
  /\ Ghost(0)

\* Timing.Ticks advances by a millisecond.
Tick ==
  /\ now < MaxTime
  /\ now' = now + 1
  /\ ev' = <<>>
  /\ UNCHANGED <<init, chans, reserved, groups, playPolicy, srcs, calls, cb>>
  /\ last' = NoResult
  /\ Ghost(0)

(* ------------------------------------------------------------------ *)
(* Playback rates                                                       *)
(* ------------------------------------------------------------------ *)
\* Mixer.CheckRate(rate): throws when rate < 0.
CheckRate(rate) == ~(rate < 0)

\* AudioSource.PlaybackRate = value: set { Mixer.CheckRate(rate); lock(this) rate=value; }
\* Inside the setter rate is the field, so the test is made on the stored rate.
SetSourceRate(s, value) ==
  /\ last' = Ended(0, IF CheckRate(srcs[s].rate) THEN "done" ELSE "OutOfRange")
  /\ srcs' = IF CheckRate(srcs[s].rate) THEN [srcs EXCEPT ![s].rate = value] ELSE srcs
  /\ ev' = <<>>
  /\ UNCHANGED <<init, chans, reserved, groups, playPolicy, now, calls, cb>>
  /\ Ghost(0)

\* Channel.PlaybackRate = value on Mixer.Channels[c]: the same setter.
SetChannelRate(c, value) ==
  /\ Usable(c)
  /\ last' = Ended(c, IF CheckRate(chans[c + 1].rate) THEN "done" ELSE "OutOfRange")
  /\ chans' = IF CheckRate(chans[c + 1].rate) THEN [chans EXCEPT ![c + 1].rate = value]
              ELSE chans
  /\ ev' = <<>>
  /\ UNCHANGED <<init, reserved, groups, playPolicy, srcs, now, calls, cb>>
  /\ Ghost(0)

(* ------------------------------------------------------------------ *)
(* Mixer configuration                                                  *)
(* ------------------------------------------------------------------ *)
\* Mixer.PlayPolicy = p
SetPlayPolicy(p) ==
  /\ playPolicy' = p
  /\ ev' = <<>>
  /\ UNCHANGED <<init, chans, reserved, groups, srcs, now, calls, cb>>
  /\ last' = NoResult
  /\ Ghost(0)

\* Mixer.ReservedChannels = value: the range test reads reserved, not value.
SetReservedChannels(value) ==
  /\ init
  /\ ~(reserved < 0 \/ reserved > Len(chans))
  /\ reserved' = value
  /\ ev' = <<>>
  /\ UNCHANGED <<init, chans, groups, playPolicy, srcs, now, calls, cb>>
  /\ last' = NoResult
  /\ Ghost(0)

\* The reference a request holds to a group's list outlives the group's slot.
KeepGroupRefs(gone) ==
  [t \in Threads |->
     IF calls[t].pc = "policy" /\ calls[t].target # FreeChannel /\ ~calls[t].stale
        /\ ToGroup(calls[t].target) \in gone
     THEN [calls[t] EXCEPT !.stale = TRUE, !.group = GetGroup(calls[t].target)]
     ELSE calls[t]]

\* Mixer.Initialize: chans = new Channel[0]; groups = new ArrayList(); init = true.
Initialize ==
  /\ ~init
  /\ init' = TRUE
  /\ chans' = <<>>
  /\ groups' = <<>>
  /\ ev' = <<>>
  /\ UNCHANGED <<reserved, playPolicy, srcs, now, calls, cb>>
  /\ last' = NoResult
  /\ Ghost(0)

\* Mixer.Deinitialize: chans = null; groups = null; init = false. GLMixer.Quit() ends the
\* callbacks, so it is taken between two callbacks.
Deinitialize ==
  /\ init
  /\ cb = -1
  /\ init' = FALSE
  /\ chans' = <<>>
  /\ groups' = <<>>
  /\ calls' = KeepGroupRefs(0..(Len(groups) - 1))
  /\ ev' = <<>>
  /\ UNCHANGED <<reserved, playPolicy, srcs, now, cb>>
  /\ last' = NoResult
  /\ Ghost(0)

\* for(int i=numChannels; i<chans.Length; i++) chans[i].Stop(); a null slot throws.
RECURSIVE StopFrom(_, _, _)
StopFrom(chs, i, evs) ==
  IF i >= Len(chs) THEN [chans |-> chs, ev |-> evs, threw |-> FALSE]
  ELSE IF IsNull(chs[i + 1]) THEN [chans |-> chs, ev |-> evs, threw |-> TRUE]
  ELSE LET r == StopPlaying(chs[i + 1], TRUE)
       IN StopFrom([chs EXCEPT ![i + 1] = r.ch], i + 1, evs \o r.ev)

\* Mixer.AllocateChannels(numChannels), under lock(callback). Array.Copy(narr, chans,
\* chans.Length) copies from the new array into the old one: it throws when the new array
\* is the shorter one, and otherwise the new array keeps null in the slots of the old
\* channels; only the slots from chans.Length on get a new Channel.
AllocateChannels(numChannels) ==
  /\ init
  /\ numChannels >= 0
  /\ cb = -1
  /\ LET st == StopFrom(chans, numChannels, <<>>)
     IN /\ ev' = st.ev
        /\ IF st.threw \/ numChannels < Len(chans)
           THEN /\ chans' = st.chans
                /\ UNCHANGED reserved
           ELSE /\ chans' = [k \in 1..numChannels |->
                               IF k <= Len(chans) THEN NullChannel ELSE NewChannel(k - 1)]
                /\ reserved' = IF numChannels < reserved THEN numChannels ELSE reserved
  /\ UNCHANGED <<init, groups, playPolicy, srcs, now, calls, cb>>
  /\ last' = NoResult
  /\ Ghost(0)

(* ------------------------------------------------------------------ *)
(* Groups                                                               *)
(* ------------------------------------------------------------------ *)
MaxGroups == 1   \* group slots

NoGroup == [present |-> FALSE, list |-> <<>>]
EmptyGroup == [present |-> TRUE, list |-> <<>>]

\* The slot Mixer.AddGroup fills: the first null slot, or a new slot at the end.
AddGroupSlot ==
  IF \E k \in 1..Len(groups) : ~groups[k].present
  THEN (CHOOSE k \in 1..Len(groups) :
          /\ ~groups[k].present
          /\ \A j \in 1..(k - 1) : groups[j].present) - 1
  ELSE Len(groups)

\* Mixer.AddGroup: the first null slot gets a new list (return i), or a list is added at the
\* end (return groups.Add(...), the index of the new element). The value returned is the
\* slot index itself.
AddGroup ==
  /\ init
  /\ ~GroupsLocked
  /\ IF AddGroupSlot < Len(groups)
     THEN groups' = [groups EXCEPT ![AddGroupSlot + 1] = EmptyGroup]
     ELSE /\ Len(groups) < MaxGroups
          /\ groups' = Append(groups, EmptyGroup)
  /\ ev' = <<>>
  /\ UNCHANGED <<init, chans, reserved, playPolicy, srcs, now, calls, cb>>
  /\ last' = [NoResult EXCEPT !.res = "group", !.ret = AddGroupSlot]
  /\ Ghost(0)

\* Mixer.RemoveGroup(group): groups[ToGroup(group)] = null.
RemoveGroup(group) ==
  /\ ~GroupsLocked
  /\ ValidGroup(group)
  /\ groups' = [groups EXCEPT ![ToGroup(group) + 1] = NoGroup]
  /\ calls' = KeepGroupRefs({ToGroup(group)})
  /\ ev' = <<>>
  /\ UNCHANGED <<init, chans, reserved, playPolicy, srcs, now, cb>>
  /\ last' = NoResult
  /\ Ghost(0)

Contains(list, x) == \E k \in 1..Len(list) : list[k] = x
RECURSIVE Remove(_, _)
Remove(list, x) ==
  IF list = <<>> THEN <<>>
  ELSE IF Head(list) = x THEN Tail(list)
       ELSE <<Head(list)>> \o Remove(Tail(list), x)

\* Mixer.CheckChannel: only FreeChannel and the non-negative indices pass.
CheckChannel(channel) == init /\ ~(channel # FreeChannel /\ channel < 0)

\* Mixer.GroupChannel(channel, group): if(!list.Contains(channel)) list.Add(channel);
GroupChannel(channel, group) ==
  /\ CheckChannel(channel)
  /\ ~GroupsLocked
  /\ ValidGroup(group)
  /\ groups' = IF Contains(GetGroup(group), channel) THEN groups
               ELSE [groups EXCEPT ![ToGroup(group) + 1].list = Append(@, channel)]
  /\ ev' = <<>>
  /\ UNCHANGED <<init, chans, reserved, playPolicy, srcs, now, calls, cb>>
  /\ last' = NoResult
  /\ Ghost(0)

\* Mixer.UngroupChannel(channel, group): GetGroup(group).Remove(channel);
UngroupChannel(channel, group) ==
  /\ ~GroupsLocked
  /\ ValidGroup(group)
  /\ groups' = [groups EXCEPT ![ToGroup(group) + 1].list = Remove(@, channel)]
  /\ ev' = <<>>
  /\ UNCHANGED <<init, chans, reserved, playPolicy, srcs, now, calls, cb>>
  /\ last' = NoResult
  /\ Ghost(0)

(* ------------------------------------------------------------------ *)
(* Mixer.Stop / Pause / Resume / FadeOut over all channels or a group   *)
(* ------------------------------------------------------------------ *)
\* What one of Channel.Stop, Pause, Resume and FadeOut(fadeMs) does to a channel at time t.
ChannelOp(op, ch, fadeMs, t) ==
  CASE op = "Stop" -> StopPlaying(ch, TRUE)
    [] op = "Pause" -> [ch |-> [ch EXCEPT !.paused = TRUE], ev |-> <<>>]
    [] op = "Resume" -> [ch |-> [ch EXCEPT !.paused = FALSE], ev |-> <<>>]
    [] op = "FadeOut" ->
         [ch |-> IF ch.source = NoSource THEN ch
                 ELSE [ch EXCEPT !.fade = "Out", !.fadeTime = fadeMs, !.fadeStart = t,
                                 !.fadeVolume = EffectiveVolume(ch)],
          ev |-> <<>>]

\* for(...) chans[index].Op(): the channels are taken in the order of the list; an index
\* outside the array or a null slot ends the loop with an exception, the channels before
\* it already changed.
RECURSIVE BulkApply(_, _, _, _, _, _)
BulkApply(op, list, chs, evs, fadeMs, t) ==
  IF list = <<>> THEN [chans |-> chs, ev |-> evs, res |-> "done"]
  ELSE LET c == Head(list) IN
       IF c < 0 \/ c >= Len(chs) THEN [chans |-> chs, ev |-> evs, res |-> "IndexOutOfRange"]
       ELSE IF IsNull(chs[c + 1]) THEN [chans |-> chs, ev |-> evs, res |-> "NullReference"]
       ELSE LET r == ChannelOp(op, chs[c + 1], fadeMs, t)
            IN BulkApply(op, Tail(list), [chs EXCEPT ![c + 1] = r.ch], evs \o r.ev, fadeMs, t)

\* Mixer.Stop(group), Pause(group), Resume(group), FadeOut(group, fadeMs). With group == -1
\* the loop reads chans.Length at once, with no CheckInit: chans is null while the mixer is
\* not initialized. With a group the method enters lock(groups) before GetGroup is called:
\* groups is null while the mixer is not initialized.
MixerBulk(op, group, fadeMs) ==
  /\ LET r == IF group = -1
              THEN IF ~init THEN [chans |-> chans, ev |-> <<>>, res |-> "NullReference"]
                   ELSE BulkApply(op, [i \in 1..Len(chans) |-> i - 1], chans, <<>>, fadeMs, now)
              ELSE IF ~init THEN [chans |-> chans, ev |-> <<>>, res |-> "ArgumentNull"]
                   ELSE IF ~ValidGroup(group)
                        THEN [chans |-> chans, ev |-> <<>>, res |-> "Argument"]
                        ELSE BulkApply(op, GetGroup(group), chans, <<>>, fadeMs, now)
     IN /\ chans' = r.chans
        /\ ev' = r.ev
        /\ last' = Ended(group, r.res)
  /\ (init /\ group # -1) => ~GroupsLocked
  /\ UNCHANGED <<init, reserved, groups, playPolicy, srcs, now, calls, cb>>
  /\ Ghost(0)

MixerStop(group) == MixerBulk("Stop", group, 0)
MixerPause(group) == MixerBulk("Pause", group, 0)
MixerResume(group) == MixerBulk("Resume", group, 0)
MixerFadeOut(group, fadeMs) == MixerBulk("FadeOut", group, fadeMs)

(* ------------------------------------------------------------------ *)
(* Mixer.OldestChannel                                                  *)
(* ------------------------------------------------------------------ *)
\* The indices the loop of OldestChannel looks at, in order: from 0 (unreserved) or from
\* reserved up to the end of the array, or the members of the list, without those below
\* reserved unless unreserved.
RECURSIVE OldestMembers(_, _)
OldestMembers(list, unreserved) ==
  IF list = <<>> THEN <<>>
  ELSE IF ~unreserved /\ Head(list) < reserved THEN OldestMembers(Tail(list), unreserved)
       ELSE <<Head(list)>> \o OldestMembers(Tail(list), unreserved)

OldestRange(unreserved) ==
  LET first == IF unreserved THEN 0 ELSE reserved
  IN [k \in 1..(IF Len(chans) > first THEN Len(chans) - first ELSE 0) |-> first + k - 1]

\* Mixer.OldestChannel(group, unreserved). With group == -1: CheckInit, then under
\* lock(callback) oi starts at 0 or reserved. With a group: lock(groups), GetGroup, oi
\* starts at 0. A channel replaces oi only if its Age is above the greatest seen, which
\* starts at 0. chans[i].Age on a null slot or outside the array throws.
OldestChannel(group, unreserved) ==
  /\ (init /\ group # -1) => ~GroupsLocked
  /\ last' =
       IF group = -1 /\ ~init THEN Ended(group, "NotInitialized")
       ELSE IF ~init THEN Ended(group, "ArgumentNull")
       ELSE IF group # -1 /\ ~ValidGroup(group) THEN Ended(group, "Argument")
       ELSE LET cand == IF group = -1 THEN OldestRange(unreserved)
                        ELSE OldestMembers(GetGroup(group), unreserved)
                first == IF group = -1 /\ ~unreserved THEN reserved ELSE 0
            IN IF \E j \in 1..Len(cand) : cand[j] < 0 \/ cand[j] >= Len(chans)
               THEN Ended(group, "IndexOutOfRange")
               ELSE IF \E j \in 1..Len(cand) : IsNull(chans[cand[j] + 1])
               THEN Ended(group, "NullReference")
               ELSE [Ended(group, "oldest") EXCEPT !.ret = OldestScan(cand, first, 0)]
  /\ ev' = <<>>
  /\ UNCHANGED <<init, chans, reserved, groups, playPolicy, srcs, now, calls, cb>>
  /\ Ghost(0)

(* ------------------------------------------------------------------ *)
(* The inputs of the specifications                                     *)
(* ------------------------------------------------------------------ *)
ChannelIds == 0..(MaxChannels - 1)
GroupIds == {-2 - k : k \in 0..(MaxGroups - 1)}
Policies == {"Fail", "Oldest", "Priority", "OldestPriority"}

\* The threads that call Mixer.StartPlaying (FreeChannel or a group), and the thread that
\* plays on explicit channels.
Requesters == Threads \ {NumThreads}
Players == {NumThreads}

\* No play request is under way and no callback is running: the mixer is configured
\* (initialized, channels allocated, reservation set) at such moments.
Quiet == cb = -1 /\ \A t \in Threads : calls[t].pc \notin InFlight

Init == InitWith(1, 1)

(* ------------------------------------------------------------------ *)
(* Spec: FreeChannel requests against explicit plays and stops          *)
(* ------------------------------------------------------------------ *)
\* The plays on explicit channels: sample.Play(0, Infinite, c) and stream.FadeIn(0, 0, Infinite, c).
ExplicitPlays == {<<"sample", "None">>, <<"stream", "In">>}

Next ==
  \/ Quiet /\ Initialize
  \/ Quiet /\ \E n \in 0..MaxChannels : AllocateChannels(n)
  \/ Quiet /\ \E v \in 0..MaxChannels : SetReservedChannels(v)
  \/ \E p \in Policies : SetPlayPolicy(p)
  \/ \E p \in 0..MaxPriority : SetPriority("sample", p)
  \/ \E t \in Players, c \in ChannelIds, p \in ExplicitPlays :
       PlayChannel(t, c, p[1], 0, p[2], 0, Infinite)
  \/ \E t \in Requesters :
       MixerStartPlaying(t, FreeChannel, "sample", 0, "None", 0, Infinite)
  \/ \E t \in Threads : ScanFree(t)
  \/ \E t \in Threads : ScanFreeLocked(t)
  \/ \E t \in Threads : ScanFreeEnd(t)
  \/ \E t \in Threads : ApplyPolicy(t)
  \/ Tick

Spec == Init /\ [][Next]_vars

(* ------------------------------------------------------------------ *)
(* SpecGroup: group requests against explicit plays and group changes   *)
(* ------------------------------------------------------------------ *)
NextGroup ==
  \/ Quiet /\ Initialize
  \/ Quiet /\ Deinitialize
  \/ Quiet /\ \E n \in 0..MaxChannels : AllocateChannels(n)
  \/ Quiet /\ \E v \in 0..MaxChannels : SetReservedChannels(v)
  \/ \E p \in Policies : SetPlayPolicy(p)
  \/ AddGroup
  \/ \E g \in GroupIds : RemoveGroup(g)
  \/ \E c \in ChannelIds, g \in GroupIds : GroupChannel(c, g)
  \/ \E c \in ChannelIds, g \in GroupIds : UngroupChannel(c, g)
  \/ \E t \in Players, c \in ChannelIds :
       PlayChannel(t, c, "sample", 0, "None", 0, Infinite)
  \/ \E t \in Requesters, g \in GroupIds :
       MixerStartPlaying(t, g, "sample", 0, "None", 0, Infinite)
  \/ \E t \in Threads : ScanGroupBegin(t)
  \/ \E t \in Threads : ScanGroup(t)
  \/ \E t \in Threads : ScanGroupLocked(t)
  \/ \E t \in Threads : ScanGroupEnd(t)
  \/ \E t \in Threads : ApplyPolicy(t)
  \/ Tick

SpecGroup == Init /\ [][NextGroup]_vars

(* ------------------------------------------------------------------ *)
(* SpecMix: explicit plays, stops and fades against the device callback *)
(* ------------------------------------------------------------------ *)
MixChannels == 1   \* largest argument given to AllocateChannels in SpecMix

\* The plays of SpecMix: <<source, loops, fade, fadeMs, timeoutMs>>.
MixPlays ==
  {<<"sample", 0, "None", 0, Infinite>>, <<"sample", 1, "None", 0, 0>>,
   <<"stream", 0, "In", 1, Infinite>>}

NextMix ==
  \/ Initialize
  \/ \E n \in 0..MixChannels : AllocateChannels(n)
  \/ \E t \in Players, c \in ChannelIds, p \in MixPlays :
       PlayChannel(t, c, p[1], p[2], p[3], p[4], p[5])
  \/ \E c \in ChannelIds : ChannelStop(c)
  \/ \E c \in ChannelIds : ChannelPause(c)
  \/ \E c \in ChannelIds : ChannelResume(c)
  \/ \E c \in ChannelIds : ChannelFadeOut(c, 0)
  \/ FillBuffer
  \/ Tick

SpecMix == Init /\ [][NextMix]_vars

(* ------------------------------------------------------------------ *)
(* Properties of the play requests (Spec, SpecGroup)                    *)
(* ------------------------------------------------------------------ *)
Bound(k) == Usable(k) /\ chans[k + 1].source # NoSource

\* Every candidate of a FreeChannel request, the channels reserved..Length-1, is non-Idle.
NoIdleCandidate == \A k \in reserved..(Len(chans) - 1) : Bound(k)

\* Thread t is at the end of a pass over the FreeChannel candidates and takes its step.
PassEnds(t) ==
  /\ init
  /\ calls[t].pc = "scan"
  /\ calls[t].i >= Len(chans)
  /\ calls'[t] # calls[t]

\* The step completes a request of thread t for target with the value ret.
Returns(t, target, ret) ==
  last' = [thread |-> t, target |-> target, src |-> calls[t].src, res |-> "ret", ret |-> ret]

\* C1: with play policy Fail, a FreeChannel request that has passed over its candidates
\* while every one of them is non-Idle returns -1 and binds nothing.
C1_FailReturnsMinusOne ==
  [][\A t \in Threads :
       (PassEnds(t) /\ NoIdleCandidate /\ playPolicy = "Fail")
         => (Returns(t, FreeChannel, -1) /\ chans' = chans)]_vars

\* C2: a FreeChannel request returns -1 at once when reserved = chans.Length; a request that
\* binds in a pass binds a channel that was Idle, of index in reserved..Length-1, the lowest
\* such one unless another thread changed the channels under the pass, and returns its index;
\* no FreeChannel request returns or binds a channel below reserved.
C2_FreeChannelBindsLowestIdle ==
  [][\A t \in Threads :
       /\ (calls[t].pc = "idle" /\ calls'[t].pc = "scan") => reserved # Len(chans)
       /\ (last'.thread = t /\ last'.target = FreeChannel /\ last'.res = "ret") =>
            \/ last'.ret = -1 /\ chans' = chans
            \/ /\ last'.ret >= reserved
               /\ last'.ret < Len(chans)
               /\ chans'[last'.ret + 1].source = last'.src
               /\ \A k \in 1..Len(chans) : k # last'.ret + 1 => chans'[k] = chans[k]
               /\ calls[t].pc = "lock" =>
                    /\ ~Bound(last'.ret)
                    /\ ~raced[t] => \A k \in reserved..(last'.ret - 1) : Bound(k)]_vars

\* A FreeChannel request has just bound channel 1 while channel 0, reserved, is Idle.
C2_Witness ==
  /\ last.target = FreeChannel /\ last.res = "ret" /\ last.ret = 1
  /\ reserved = 1 /\ Len(chans) = 2
  /\ Usable(0) /\ ~Bound(0)
  /\ chans[2].source = last.src

\* C3: a Play or FadeIn on an explicit channel that returns has bound the source to exactly
\* that channel, stopped what the channel played, touched no other channel and returned the
\* channel's index, whatever reserved and the play policy are.
C3_ExplicitChannelBinds ==
  [][(last'.target >= 0 /\ last'.res = "ret") =>
       /\ last'.ret = last'.target
       /\ last'.ret < Len(chans)
       /\ chans'[last'.ret + 1].source = last'.src
       /\ chans'[last'.ret + 1].startTime = now
       /\ \A k \in 1..Len(chans) : k # last'.ret + 1 => chans'[k] = chans[k]
       /\ Bound(last'.ret) =>
            /\ Len(ev') = 3
            /\ ev'[1].kind = "Finished" /\ ev'[1].chan = last'.ret
            /\ ev'[1].src = chans[last'.ret + 1].source]_vars

\* A play on channel 0 has returned 0 and replaced a playback while channel 0 is reserved
\* and the policy is Fail.
C3_Witness ==
  /\ last.target = 0 /\ last.res = "ret" /\ last.ret = 0
  /\ reserved >= 1 /\ playPolicy = "Fail"
  /\ Len(ev) = 3 /\ ev[3].kind = "Bound" /\ ev[3].chan = 0
  /\ chans[1].source = last.src

\* C4: with play policy Oldest, a FreeChannel request that has passed over its candidates
\* while every one of them is non-Idle goes on to replace a channel under that policy.
C4_OldestEvicts ==
  [][\A t \in Threads :
       (PassEnds(t) /\ NoIdleCandidate /\ playPolicy = "Oldest")
         => (calls'[t].pc = "policy" /\ calls'[t].policy = "Oldest")]_vars

\* C5: with play policy OldestPriority, a FreeChannel request that has passed over its
\* candidates while every one of them is non-Idle goes on to replace a channel under that
\* policy.
C5_OldestPriorityEvicts ==
  [][\A t \in Threads :
       (PassEnds(t) /\ NoIdleCandidate /\ playPolicy = "OldestPriority")
         => (calls'[t].pc = "policy" /\ calls'[t].policy = "OldestPriority")]_vars

\* The priority of the source bound to channel k, as it is now.
SourcePriority(k) == srcs[chans[k + 1].source].priority

\* C6: with play policy Priority and no Idle candidate, the channel a FreeChannel request
\* replaces is the first in scan order among the candidates whose bound source has the
\* smallest priority at that moment.
C6_PriorityEvictsSmallest ==
  [][\A t \in Threads :
       (/\ calls[t].pc = "policy" /\ calls[t].policy = "Priority"
        /\ NoIdleCandidate
        /\ last'.thread = t /\ last'.res = "ret")
         => /\ last'.ret \in reserved..(Len(chans) - 1)
            /\ \A k \in reserved..(Len(chans) - 1) :
                 /\ SourcePriority(last'.ret) <= SourcePriority(k)
                 /\ k < last'.ret => SourcePriority(last'.ret) < SourcePriority(k)]_vars

\* C7: an index other than -1 that a request aimed at a group returns is a member of the
\* group and is not below reserved.
C7_GroupReturnsMember ==
  (last.res = "ret" /\ last.target \in GroupIds /\ last.ret # -1 /\ ValidGroup(last.target))
    => (Contains(GetGroup(last.target), last.ret) /\ last.ret >= reserved)

(* ------------------------------------------------------------------ *)
(* Properties of the finished handlers (SpecMix)                        *)
(* ------------------------------------------------------------------ *)
\* The slot of channel k is still there, with a channel in it, after the step.
Kept(k) == k < Len(chans') /\ ~IsNull(chans'[k + 1])

\* The positions in the step's invocations of the events of a kind on channel k.
Fired(kind, k) == {j \in 1..Len(ev') : ev'[j].kind = kind /\ ev'[j].chan = k}

\* C8: a step that binds a source to a channel that was Playing or Paused has called, just
\* before the binding and in this order, the channel's Finished handlers and the mixer's
\* ChannelFinished hook for the playback it replaces.
C8_RebindFiresFinishedFirst ==
  [][\A k \in ChannelIds : \A j \in Fired("Bound", k) :
       Bound(k) =>
         /\ j >= 3
         /\ ev'[j - 2] = [kind |-> "Finished", chan |-> k, src |-> chans[k + 1].source,
                          locked |-> TRUE]
         /\ ev'[j - 1] = [kind |-> "ChannelFinished", chan |-> k,
                          src |-> chans[k + 1].source, locked |-> TRUE]
         /\ chans'[k + 1].source = ev'[j].src
         /\ ~chans'[k + 1].paused]_vars

\* A stream has just been bound to a channel that played the sample.
C8_Witness ==
  /\ Len(ev) = 3
  /\ ev[1].kind = "Finished" /\ ev[1].src = "sample"
  /\ ev[3].kind = "Bound" /\ ev[3].src = "stream"
  /\ chans[ev[3].chan + 1].source = "stream"

C10_HandlersThenHookUnderLock ==
  [][/\ \A j \in 1..Len(ev') :
          /\ ev'[j].kind = "Finished" =>
               /\ j < Len(ev')
               /\ ev'[j + 1] = [ev'[j] EXCEPT !.kind = "ChannelFinished"]
               /\ ev'[j].locked
          /\ ev'[j].kind = "ChannelFinished" =>
               /\ j > 1
               /\ ev'[j - 1] = [ev'[j] EXCEPT !.kind = "Finished"]
     /\ \A k \in ChannelIds :
          (Bound(k) /\ Kept(k) /\ chans'[k + 1].source = NoSource)
            => \E j \in Fired("Finished", k) : ev'[j].src = chans[k + 1].source]_vars

\* The stream's playback has just ended and left its channel Idle: handlers, then hook,
\* both under the channel's lock.
C10_Witness ==
  /\ Len(ev) = 2
  /\ ev[1].kind = "Finished" /\ ev[2].kind = "ChannelFinished"
  /\ ev[1].src = "stream" /\ ev[2].src = "stream" /\ ev[1].locked /\ ev[2].locked
  /\ Usable(ev[1].chan) /\ ~Bound(ev[1].chan)

(* ------------------------------------------------------------------ *)
(* Properties of stopping and of the channel status (SpecMix)           *)
(* ------------------------------------------------------------------ *)
\* C11: once Channel.Stop has returned the channel is Idle; a channel that is Idle when a
\* step begins has no frame mixed in that step, and it stays Idle until a step binds a
\* source to it.
C11_NoMixAfterStop ==
  [][\A k \in ChannelIds :
       /\ (Usable(k) /\ ChannelStop(k)) => chans'[k + 1].source = NoSource
       /\ ~Bound(k) => Fired("Mixed", k) = {}
       /\ (~Bound(k) /\ Kept(k) /\ chans'[k + 1].source # NoSource)
            => Fired("Bound", k) # {}]_vars

\* Channel 0 has just been stopped while it played the sample, before any frame of it was
\* mixed.
C11_Witness ==
  /\ Len(ev) = 2
  /\ ev[1].kind = "Finished" /\ ev[1].chan = 0 /\ ev[1].src = "sample"
  /\ last.res = "none"
  /\ Usable(0) /\ ~Bound(0)
  /\ chans[1].position = 0 /\ srcs["sample"].pos = 0 /\ now = 0

(* ------------------------------------------------------------------ *)
(* Binding sources to two channels: explicit plays of each source with  *)
(* and without looping, and Channel.Stop.                               *)
(* ------------------------------------------------------------------ *)
\* The plays of SpecBind: <<source, loops>>.
BindPlays == Sources \X {0, 1}

NextBind ==
  \/ Initialize
  \/ \E n \in 0..MaxChannels : AllocateChannels(n)
  \/ \E t \in Players, c \in ChannelIds, p \in BindPlays :
       PlayChannel(t, c, p[1], p[2], "None", 0, Infinite)
  \/ \E c \in ChannelIds : ChannelStop(c)
  \/ FillBuffer

SpecBind == Init /\ [][NextBind]_vars

(* ------------------------------------------------------------------ *)
(* The operations over all channels or a group, with the mixer          *)
(* initialized and not.                                                 *)
(* ------------------------------------------------------------------ *)
BulkTargets == {FreeChannel} \cup GroupIds

NextBulk ==
  \/ Initialize
  \/ Deinitialize
  \/ \E n \in 0..MaxChannels : AllocateChannels(n)
  \/ \E p \in Policies : SetPlayPolicy(p)
  \/ AddGroup
  \/ \E c \in ChannelIds, g \in GroupIds : GroupChannel(c, g)
  \/ \E t \in Players, c \in ChannelIds :
       PlayChannel(t, c, "sample", 0, "None", 0, Infinite)
  \/ \E g \in BulkTargets : MixerStop(g)
  \/ \E g \in BulkTargets : MixerPause(g)
  \/ \E g \in BulkTargets : MixerResume(g)
  \/ \E g \in BulkTargets : MixerFadeOut(g, 0)

SpecBulk == Init /\ [][NextBulk]_vars

(* ------------------------------------------------------------------ *)
(* Playback rates of a source and of the channel that plays it.         *)
(* ------------------------------------------------------------------ *)
RateChannels == 1   \* largest argument given to AllocateChannels in SpecRate

\* The values assigned to PlaybackRate, in thousandths: -1, 0, 0.5, 1, 1.001 and 2.
Rates == {-1000, 0, 500, 1000, 1001, 2000}

NextRate ==
  \/ Initialize
  \/ \E n \in 0..RateChannels : AllocateChannels(n)
  \/ \E v \in Rates : SetSourceRate("sample", v)
  \/ \E c \in ChannelIds, v \in Rates : SetChannelRate(c, v)
  \/ \E t \in Players, c \in ChannelIds :
       PlayChannel(t, c, "sample", 0, "None", 0, Infinite)

SpecRate == Init /\ [][NextRate]_vars

(* ------------------------------------------------------------------ *)
(* Mixer.OldestChannel over all channels and over a group, with         *)
(* reservations, plays and the passage of time.                         *)
(* ------------------------------------------------------------------ *)
NextOldest ==
  \/ Initialize
  \/ \E n \in 0..MaxChannels : AllocateChannels(n)
  \/ \E v \in 0..MaxChannels : SetReservedChannels(v)
  \/ AddGroup
  \/ \E c \in ChannelIds, g \in GroupIds : GroupChannel(c, g)
  \/ \E t \in Players, c \in ChannelIds :
       PlayChannel(t, c, "sample", 0, "None", 0, Infinite)
  \/ \E g \in BulkTargets, u \in BOOLEAN : OldestChannel(g, u)
  \/ Tick

SpecOldest == Init /\ [][NextOldest]_vars

(* ------------------------------------------------------------------ *)
(* Fades: a looping sample played with and without a fade-in, faded out *)
(* over 0..MaxFade ms, mixed as time passes.                            *)
(* ------------------------------------------------------------------ *)
MaxFade == 1   \* the fade times are drawn from 0..MaxFade

\* The plays of SpecFade: <<fade, fadeMs>>.
FadePlays == {<<"None", 0>>} \cup {<<"In", ms>> : ms \in 1..MaxFade}

NextFade ==
  \/ Initialize
  \/ \E n \in 0..MixChannels : AllocateChannels(n)
  \/ \E t \in Players, c \in ChannelIds, p \in FadePlays :
       PlayChannel(t, c, "sample", Infinite, p[1], p[2], Infinite)
  \/ \E c \in ChannelIds, ms \in 0..MaxFade : ChannelFadeOut(c, ms)
  \/ FillBuffer
  \/ Tick

SpecFade == Init /\ [][NextFade]_vars

(* ------------------------------------------------------------------ *)
(* The volume of the fade update, over fades of up to 2^30 ms.          *)
(* ------------------------------------------------------------------ *)
\* The fade times, in ms: from 4 ms to 2^30 ms (about twelve days).
FadeTimes ==
  {4, 8, 100, 500, 1000, 60000, 3600000, 4194304, 8388608, 16777216, 268435456, 1073741824}

\* The fade is looked at after each of its quarters.
FadeQuarters == 4

\* Channel 0 plays the looping sample at full volume with a fade-in (from 0) or a fade-out
\* (from the effective volume) of D ms that began at Timing.Ticks = 0, and i quarters of D
\* have passed.
InitFadeMath ==
  \E D \in FadeTimes, i \in 0..FadeQuarters, f \in {"In", "Out"} :
    /\ init = TRUE
    /\ chans = <<[NewChannel(0) EXCEPT !.source = "sample", !.loops = Infinite,
                                       !.timeout = Infinite, !.fade = f, !.fadeTime = D,
                                       !.fadeVolume = IF f = "In" THEN 0 ELSE MaxVolume]>>
    /\ reserved = 0
    /\ groups = <<>>
    /\ playPolicy = "Fail"
    /\ srcs = [s \in Sources |->
                 [priority |-> 0, playing |-> IF s = "sample" THEN 1 ELSE 0, pos |-> 0,
                  rate |-> RateOne, length |-> 1,
                  canSeek |-> s = "sample", canRewind |-> s = "sample"]]
    /\ now = (D \div FadeQuarters) * i
    /\ calls = [t \in Threads |-> IdleCall]
    /\ cb = -1
    /\ ev = <<>>
    /\ last = NoResult
    /\ raced = [t \in Threads |-> FALSE]
    /\ lk = NoLocks

NextFadeMath == FillBuffer

SpecFadeMath == InitFadeMath /\ [][NextFadeMath]_vars

(* ------------------------------------------------------------------ *)
(* The rate branch of Channel.Mix at the mixer frequency of 44100 Hz.   *)
(* ------------------------------------------------------------------ *)
SnapFrames == 4410    \* the frames argument of the callback: 100 ms at 44100 Hz
SnapLength == 20000   \* the length of the sample, in frames

\* The values assigned to PlaybackRate, in thousandths: 0, 0.5, 1, 1.001 and 2.
SnapRates == {0, 500, 1000, 1001, 2000}

\* Channel 0 plays the sample once from its start, both rates 1.
InitSnap ==
  /\ init = TRUE
  /\ chans = <<[NewChannel(0) EXCEPT !.source = "sample", !.loops = 0, !.timeout = Infinite]>>
  /\ reserved = 0
  /\ groups = <<>>
  /\ playPolicy = "Fail"
  /\ srcs = [s \in Sources |->
               [priority |-> 0, playing |-> IF s = "sample" THEN 1 ELSE 0, pos |-> 0,
                rate |-> RateOne, length |-> SnapLength,
                canSeek |-> s = "sample", canRewind |-> s = "sample"]]
  /\ now = 0
  /\ calls = [t \in Threads |-> IdleCall]
  /\ cb = -1
  /\ ev = <<>>
  /\ last = NoResult
  /\ raced = [t \in Threads |-> FALSE]
  /\ lk = NoLocks

NextSnap ==
  \/ \E v \in SnapRates : SetSourceRate("sample", v)
  \/ \E v \in SnapRates : SetChannelRate(0, v)
  \/ FillBufferOf(SnapFrames)

SpecSnap == InitSnap /\ [][NextSnap]_vars

(* ------------------------------------------------------------------ *)
(* The monitors taken by the callback and by the application threads.   *)
(* An operation is the sequence of its lock statements: "acq" enters a  *)
(* monitor, "rel" leaves it, and the other items stand for a call or a  *)
(* loop whose lock statements depend on the state (the bound source,    *)
(* the status found by the scan): they unfold into one of the lock      *)
(* sequences the code can take.  Monitors are re-entrant.               *)
(* ------------------------------------------------------------------ *)
Lock(kind, c, s) == [kind |-> kind, chan |-> c, src |-> s]
CallbackLock == Lock("callback", -1, NoSource)   \* lock(callback)
GroupsLock == Lock("groups", -1, NoSource)       \* lock(groups)
ChanLock(c) == Lock("chan", c, NoSource)         \* lock(chans[c]), lock(this) of a Channel
SrcLock(s) == Lock("src", -1, s)                 \* lock(source)

Acq(l) == [op |-> "acq", lock |-> l]
Rel(l) == [op |-> "rel", lock |-> l]
Item(op, c) == [op |-> op, lock |-> ChanLock(c)]

\* lock(l) { body }
Locked(l, body) == <<Acq(l)>> \o body \o <<Rel(l)>>

\* for(i...; i<n; i++) f[i]
RECURSIVE Flatten(_, _, _)
Flatten(f, i, n) == IF i >= n THEN <<>> ELSE f[i] \o Flatten(f, i + 1, n)

\* Channel.StopPlaying: if(source==null) return; lock(source) { ... source = null; }
StopPlayingLocks == {<<>>} \cup {Locked(SrcLock(s), <<>>) : s \in Sources}

\* Channel.StartPlaying(source, ...): StopPlaying(); lock(source) { ... }
StartPlayingLocks == {<<Item("StopPlaying", 0)>> \o Locked(SrcLock(s), <<>>) : s \in Sources}

\* Channel.Mix: if(source==null || paused) return; lock(source) { ... }, where the timeout,
\* the end of a fade-out and the end of the source call StopPlaying on the same source.
MixLocks ==
  {<<>>} \cup UNION {{Locked(SrcLock(s), <<>>), Locked(SrcLock(s), Locked(SrcLock(s), <<>>))} :
                       s \in Sources}

\* The scan of Mixer.StartPlaying from channel i on: the channel is not Stopped; or it is
\* locked and found not Stopped any more; or it is locked and played on, and the call returns.
ScanLocks(i) ==
  IF i >= MaxChannels THEN {<<>>}
  ELSE {<<Item("Scan", i + 1)>>,
        Locked(ChanLock(i), <<>>) \o <<Item("Scan", i + 1)>>,
        Locked(ChanLock(i), <<Item("StartPlaying", 0)>>) \o <<Item("return", 0)>>}

\* Mixer.StartPlaying(FreeChannel, ...): do { scan } while(!tried); switch(playPolicy) ...
FreePlayLocks == <<Item("Scan", 0), Item("Policy", 0)>>

\* Mixer.StartPlaying(group, ...): do { lock(groups) { scan } } while(!tried); switch ...
GroupPlayLocks == Locked(GroupsLock, <<Item("Scan", 0)>>) \o <<Item("PolicyGroup", 0)>>

\* A variant of the policy branch that enters the monitor of the victim before lock(callback).
PolicyLocksChannelFirst(inGroup) ==
  {<<>>, IF inGroup THEN GroupPlayLocks ELSE FreePlayLocks}
  \cup {Locked(ChanLock(c),
               Locked(CallbackLock,
                      (IF inGroup THEN Locked(GroupsLock, <<>>) ELSE <<>>)
                      \o <<Item("StartPlaying", 0)>>)) : c \in 0..(MaxChannels - 1)}

\* After the scan: the loop goes round again (nothing was tried), or the policy is Fail, or
\* lock(callback) { [lock(groups) { pick }] lock(chans[oi]) chans[oi].StartPlaying(...); }
PolicyLocks(inGroup) ==
  {<<>>, IF inGroup THEN GroupPlayLocks ELSE FreePlayLocks}
  \cup {Locked(CallbackLock,
               (IF inGroup THEN Locked(GroupsLock, <<>>) ELSE <<>>)
               \o Locked(ChanLock(c), <<Item("StartPlaying", 0)>>)) : c \in 0..(MaxChannels - 1)}

\* The lock sequences that an item unfolds into.
Expand(item) ==
  CASE item.op = "StopPlaying" -> StopPlayingLocks
    [] item.op = "StartPlaying" -> StartPlayingLocks
    [] item.op = "Mix" -> MixLocks
    [] item.op = "Scan" -> ScanLocks(item.lock.chan)
    [] item.op = "Policy" -> PolicyLocks(FALSE)
    [] item.op = "PolicyGroup" -> PolicyLocks(TRUE)

\* Mixer.FillBuffer: lock(callback) { for(i...) lock(chans[i]) chans[i].Mix(...); }
FillBufferLocks ==
  Locked(CallbackLock,
         Flatten([i \in 0..(MaxChannels - 1) |-> Locked(ChanLock(i), <<Item("Mix", i)>>)],
                 0, MaxChannels))

\* AudioSource.Play / FadeIn on channel c: lock(Mixer.Channels[channel]) { StartPlaying(...) }
PlayLocks(c) == Locked(ChanLock(c), <<Item("StartPlaying", 0)>>)

\* Channel.Stop: lock(this) StopPlaying();
ChannelStopLocks(c) == Locked(ChanLock(c), <<Item("StopPlaying", 0)>>)

\* Channel.FadeOut, and the setters of Position and PlaybackRate: lock(this) { ... }
ChannelFadeOutLocks(c) == Locked(ChanLock(c), <<>>)

\* Mixer.AllocateChannels(n): lock(callback) { for(i=n; i<chans.Length; i++) chans[i].Stop(); }
AllocateChannelsLocks(n) ==
  Locked(CallbackLock,
         Flatten([i \in 0..(MaxChannels - 1) |-> IF i >= n THEN ChannelStopLocks(i) ELSE <<>>],
                 0, MaxChannels))

\* Mixer.Stop(group) and Mixer.FadeOut(group, ms) over a group that holds every channel:
\* lock(groups) { for(i...) chans[(int)list[i]].Stop() / .FadeOut(fadeMs); }
MixerStopLocks ==
  Locked(GroupsLock, Flatten([i \in 0..(MaxChannels - 1) |-> ChannelStopLocks(i)], 0, MaxChannels))
MixerFadeOutLocks ==
  Locked(GroupsLock,
         Flatten([i \in 0..(MaxChannels - 1) |-> ChannelFadeOutLocks(i)], 0, MaxChannels))

\* Mixer.Stop(-1): for(i...) chans[i].Stop(); under no lock of the mixer.
MixerStopAllLocks == Flatten([i \in 0..(MaxChannels - 1) |-> ChannelStopLocks(i)], 0, MaxChannels)

\* AddGroup, RemoveGroup, GroupChannel, UngroupChannel, OldestChannel(group): lock(groups) { }
GroupEditLocks == Locked(GroupsLock, <<>>)

\* OldestChannel(-1) and the accessors of Filters: lock(callback) { }
OldestChannelLocks == Locked(CallbackLock, <<>>)

\* The operations of an application thread.
ApplicationLocks ==
  {FreePlayLocks, GroupPlayLocks, MixerStopLocks, MixerFadeOutLocks, MixerStopAllLocks,
   GroupEditLocks, OldestChannelLocks}
  \cup {PlayLocks(c) : c \in 0..(MaxChannels - 1)}
  \cup {ChannelStopLocks(c) : c \in 0..(MaxChannels - 1)}
  \cup {ChannelFadeOutLocks(c) : c \in 0..(MaxChannels - 1)}
  \cup {AllocateChannelsLocks(n) : n \in 0..MaxChannels}

\* The threads other than t that are inside the monitor l.
Inside(l, t) == {u \in LockThreads \ {t} : \E j \in 1..Len(lk[u].held) : lk[u].held[j] = l}

IsRel(item) == item.op = "rel"

\* Thread t, inside no operation, begins the operation with the lock statements script.
LockBegin(t, script) ==
  /\ lk[t].todo = <<>>
  /\ lk' = [lk EXCEPT ![t].todo = script]
  /\ UNCHANGED <<init, chans, reserved, groups, playPolicy, srcs, now, calls, cb, ev, last, raced>>

\* Thread t enters the monitor of its next lock statement, which no other thread is inside.
LockEnter(t) ==
  /\ lk[t].todo # <<>>
  /\ Head(lk[t].todo).op = "acq"
  /\ Inside(Head(lk[t].todo).lock, t) = {}
  /\ lk' = [lk EXCEPT ![t].held = Append(@, Head(lk[t].todo).lock), ![t].todo = Tail(@)]
  /\ UNCHANGED <<init, chans, reserved, groups, playPolicy, srcs, now, calls, cb, ev, last, raced>>

\* Thread t leaves the monitor it entered last.
LockLeave(t) ==
  /\ lk[t].todo # <<>>
  /\ Head(lk[t].todo).op = "rel"
  /\ lk' = [lk EXCEPT ![t].held = SubSeq(@, 1, Len(@) - 1), ![t].todo = Tail(@)]
  /\ UNCHANGED <<init, chans, reserved, groups, playPolicy, srcs, now, calls, cb, ev, last, raced>>

\* Thread t returns from inside its lock statements: it leaves the monitors it is inside and
\* does nothing else of the operation.
LockReturn(t) ==
  /\ lk[t].todo # <<>>
  /\ Head(lk[t].todo).op = "return"
  /\ lk' = [lk EXCEPT ![t].todo = SelectSeq(Tail(@), IsRel)]
  /\ UNCHANGED <<init, chans, reserved, groups, playPolicy, srcs, now, calls, cb, ev, last, raced>>

\* Thread t reaches a call or a loop: one of its lock sequences is what t does next.
LockUnfold(t) ==
  /\ lk[t].todo # <<>>
  /\ Head(lk[t].todo).op \notin {"acq", "rel", "return"}
  /\ \E e \in Expand(Head(lk[t].todo)) : lk' = [lk EXCEPT ![t].todo = e \o Tail(@)]
  /\ UNCHANGED <<init, chans, reserved, groups, playPolicy, srcs, now, calls, cb, ev, last, raced>>

\* The mixer is initialized with MaxChannels channels and a group that holds them all.
InitLock ==
  /\ init = TRUE
  /\ chans = [k \in 1..MaxChannels |-> NewChannel(k - 1)]
  /\ reserved = 0
  /\ groups = <<[present |-> TRUE, list |-> [k \in 1..MaxChannels |-> k - 1]]>>
  /\ playPolicy = "Oldest"
  /\ srcs = [s \in Sources |->
               [priority |-> 0, playing |-> 0, pos |-> 0, rate |-> RateOne, length |-> 1,
                canSeek |-> s = "sample", canRewind |-> s = "sample"]]
  /\ now = 0
  /\ calls = [t \in Threads |-> IdleCall]
  /\ cb = -1
  /\ ev = <<>>
  /\ last = NoResult
  /\ raced = [t \in Threads |-> FALSE]
  /\ lk = NoLocks

NextLock ==
  \/ LockBegin(0, FillBufferLocks)
  \/ \E t \in Threads, script \in ApplicationLocks : LockBegin(t, script)
  \/ \E t \in LockThreads : LockEnter(t)
  \/ \E t \in LockThreads : LockLeave(t)
  \/ \E t \in LockThreads : LockReturn(t)
  \/ \E t \in LockThreads : LockUnfold(t)

SpecLock == InitLock /\ [][NextLock]_vars

\* The status of channel k before and after the step.
StatusOf(k) == Status(chans[k + 1])
StatusAfter(k) == Status(chans'[k + 1])

\* C12: a step that binds a source leaves the channel Playing; Pause takes Playing to
\* Paused and Resume takes Paused to Playing, and both leave an Idle channel Idle; a channel
\* goes from Playing to Paused only by Pause, from Paused to Playing only by Resume or by a
\* new binding, and from Idle to another status only by a new binding.
C12_StatusStateMachine ==
  [][\A k \in ChannelIds :
       /\ Fired("Bound", k) # {} => StatusAfter(k) = "Playing"
       /\ (Usable(k) /\ ChannelPause(k))
            => StatusAfter(k) = (IF StatusOf(k) = "Stopped" THEN "Stopped" ELSE "Paused")
       /\ (Usable(k) /\ ChannelResume(k))
            => StatusAfter(k) = (IF StatusOf(k) = "Stopped" THEN "Stopped" ELSE "Playing")
       /\ (Usable(k) /\ Kept(k) /\ StatusOf(k) = "Playing" /\ StatusAfter(k) = "Paused")
            => ChannelPause(k)
       /\ (Usable(k) /\ Kept(k) /\ StatusOf(k) = "Paused" /\ StatusAfter(k) = "Playing")
            => (ChannelResume(k) \/ Fired("Bound", k) # {})
       /\ (Usable(k) /\ Kept(k) /\ StatusOf(k) = "Stopped" /\ StatusAfter(k) # "Stopped")
            => Fired("Bound", k) # {}]_vars

\* Channel 0 is Paused: it was bound, had a frame mixed while Playing, and was then paused.
C12_Witness ==
  /\ Usable(0) /\ Status(chans[1]) = "Paused"
  /\ chans[1].source = "sample" /\ chans[1].position = 1
  /\ ev = <<>>

\* The usable channels that hold source s.
Holders(s) == {k \in ChannelIds : Usable(k) /\ chans[k + 1].source = s}

\* C13: an explicit play on a usable channel of a source that cannot rewind with loops # 0,
\* or of a source that cannot seek and is held by another channel, ends with an exception
\* and leaves the target channel without that source.
C13_InvalidBindingRejected ==
  [][\A t \in Players, c \in ChannelIds, p \in BindPlays :
       (/\ Usable(c)
        /\ PlayChannel(t, c, p[1], p[2], "None", 0, Infinite)
        /\ \/ ~srcs[p[1]].canRewind /\ p[2] # 0
           \/ ~srcs[p[1]].canSeek /\ Holders(p[1]) \ {c} # {})
       => (last'.res = "exc" /\ chans'[c + 1].source # p[1])]_vars

\* The stream is held by channel 0 and a play of it on channel 1 has just been rejected.
C13_Witness ==
  /\ last.res = "exc" /\ last.src = "stream" /\ last.target = 1
  /\ Usable(0) /\ chans[1].source = "stream"
  /\ Usable(1) /\ chans[2].source = NoSource

\* C14: a source that cannot seek is held by at most one channel, and a channel that holds
\* a source that cannot rewind has loops = 0.
C14_SeekRewindInvariant ==
  \A s \in Sources :
    /\ ~srcs[s].canSeek => Cardinality(Holders(s)) <= 1
    /\ ~srcs[s].canRewind => \A k \in Holders(s) : chans[k + 1].loops = 0

\* The stream has just been bound to channel 1 while channel 0 holds the looping sample.
C14_Witness ==
  /\ last.res = "ret" /\ last.src = "stream" /\ last.target = 1
  /\ Holders("stream") = {1} /\ chans[2].loops = 0
  /\ Holders("sample") = {0} /\ chans[1].loops = 1

\* C15: while the mixer is initialized, 0 <= reserved <= channels.length, and an assignment
\* to ReservedChannels of a value outside that range leaves reserved as it was.
C15_ReservedWithinChannels ==
  init => (0 <= reserved /\ reserved <= Len(chans))

\* C16: every present group contains only channel indices i with 0 <= i < channels.length,
\* and contains no index twice.
C16_GroupsHoldValidChannels ==
  \A k \in 1..Len(groups) :
    groups[k].present =>
      LET list == groups[k].list IN
      /\ \A j \in 1..Len(list) : 0 <= list[j] /\ list[j] < Len(chans)
      /\ \A i, j \in 1..Len(list) : list[i] = list[j] => i = j

\* C17: the value AddGroup returns is -slot - 2 for the slot it filled, so it is at most
\* -2, and it names the group just created: GetGroup accepts it and gives the empty list.
C17_AddGroupReturnsGroupId ==
  last.res = "group" =>
    /\ last.ret <= -2
    /\ ValidGroup(last.ret)
    /\ GetGroup(last.ret) = <<>>

\* C18: AllocateChannels(n) with n above the channel count keeps every existing channel at
\* its index with its state unchanged and appends new Idle channels at the indices from the
\* old count up to n.
C18_GrowKeepsChannels ==
  [][\A n \in 0..MaxChannels :
       (AllocateChannels(n) /\ n > Len(chans))
       => /\ Len(chans') = n
          /\ \A k \in 1..Len(chans) : chans'[k] = chans[k]
          /\ \A k \in (Len(chans) + 1)..n : chans'[k] = NewChannel(k - 1)]_vars

\* C19: AllocateChannels(n) with n below the channel count stops every channel with index
\* >= n, firing the finished handlers of those that were bound, leaves a channel array of
\* length n whose channels are the previous first n, and leaves reserved at most n.
C19_ShrinkStopsAndTruncates ==
  [][\A n \in 0..MaxChannels :
       (AllocateChannels(n) /\ n < Len(chans))
       => /\ \A k \in n..(Len(chans) - 1) :
               (~IsNull(chans[k + 1]) /\ chans[k + 1].source # NoSource)
                 => \E j \in 1..Len(ev') : ev'[j].kind = "Finished" /\ ev'[j].chan = k
          /\ Len(chans') = n
          /\ \A k \in 1..n : chans'[k] = chans[k]
          /\ reserved' <= n]_vars

\* C20: while the mixer is not initialized, Stop, Pause, Resume and FadeOut over all
\* channels or a group end with the not-initialized error, and they and an assignment to
\* PlayPolicy change no state of the mixer.
C20_NotInitializedRejected ==
  [][/\ \A g \in BulkTargets :
          (~init /\ (MixerStop(g) \/ MixerPause(g) \/ MixerResume(g) \/ MixerFadeOut(g, 0)))
          => (last'.res = "NotInitialized"
              /\ UNCHANGED <<init, chans, reserved, groups, playPolicy, srcs>>)
     /\ \A p \in Policies :
          (~init /\ SetPlayPolicy(p))
          => UNCHANGED <<init, chans, reserved, groups, playPolicy, srcs>>]_vars

\* The channel index that this step of Mixer.FillBuffer mixes.
MixIndex == IF cb = -1 THEN 0 ELSE cb

\* This step is the pass of Channel.Mix over channel k.
MixPass(k) == FillBuffer /\ MixIndex = k /\ ~IsNull(chans[k + 1])

\* C28: a pass of Mix over a channel that is Idle or Paused leaves the channel and the
\* sources as they are, mixes no frame and calls no handler, whatever the channel's timeout
\* and fade.
C28_IdleOrPausedUntouched ==
  [][\A k \in ChannelIds :
       (MixPass(k) /\ StatusOf(k) # "Playing")
       => (chans' = chans /\ srcs' = srcs /\ ev' = <<>>)]_vars

\* Channel 0 is Paused with its timeout of 0 ms exceeded and no callback running.
C28_Witness ==
  /\ Usable(0) /\ Status(chans[1]) = "Paused"
  /\ chans[1].timeout = 0 /\ Age(chans[1], now) > 0
  /\ cb = -1 /\ ev = <<>> /\ last = NoResult

\* The position the pass over channel ch starts to read its source from.
ReadStart(ch) ==
  IF srcs[ch.source].canSeek THEN ch.position ELSE srcs[ch.source].pos

\* C29: a pass of Mix over a Playing channel whose timeout is not Infinite and whose age is
\* above it stops the channel and fires Finished, reads nothing and mixes no frame; a pass
\* over a Playing channel without a fade whose timeout is Infinite or not below its age,
\* and whose source does not end in that pass, leaves the channel bound.
C29_TimeoutStopsBeforeMixing ==
  [][\A k \in ChannelIds :
       (MixPass(k) /\ StatusOf(k) = "Playing")
       => LET ch == chans[k + 1]
              expired == ch.timeout # Infinite /\ now - ch.startTime > ch.timeout
          IN /\ expired => /\ chans'[k + 1].source = NoSource
                           /\ Fired("Finished", k) # {}
                           /\ Fired("Mixed", k) = {}
                           /\ srcs' = srcs
             /\ (/\ ~expired
                 /\ ch.fade = "None"
                 /\ ReadLoop(ReadStart(ch), FramesPerCallback, ch.loops,
                             srcs[ch.source].length, 0).end # "stop")
                  => chans'[k + 1].source = ch.source]_vars

\* The pass over channel 0, bound with a timeout of 0 ms one millisecond before, has just
\* stopped it: Finished fired and the source was not read.
C29_Witness ==
  /\ Len(ev) = 2 /\ ev[1].kind = "Finished" /\ ev[1].chan = 0 /\ ev[1].locked
  /\ Usable(0) /\ chans[1].source = NoSource
  /\ chans[1].timeout = 0 /\ chans[1].startTime = 0 /\ now = 1
  /\ chans[1].position = 0 /\ srcs["sample"].pos = 0

\* C30: a pass of Mix over a Playing channel with a fade of D > 0 ms, elapsed = now -
\* fadeStart: when elapsed >= D a fade-out stops the channel (Finished fires) and mixes
\* nothing, and a fade-in mixes at the effective volume and leaves fade None; when elapsed <
\* D the fade is kept and the frames are mixed at the linear volume between fadeVolume and
\* the target.
C30_FadeUpdate ==
  [][\A k \in ChannelIds :
       (/\ MixPass(k) /\ StatusOf(k) = "Playing"
        /\ ~(chans[k + 1].timeout # Infinite /\ now - chans[k + 1].startTime > chans[k + 1].timeout)
        /\ chans[k + 1].fade # "None" /\ chans[k + 1].fadeTime > 0)
       => LET ch == chans[k + 1]
              elapsed == now - ch.fadeStart
              target == IF ch.fade = "In" THEN EffectiveVolume(ch) ELSE 0
          IN IF elapsed >= ch.fadeTime
             THEN IF ch.fade = "Out"
                  THEN /\ chans'[k + 1].source = NoSource
                       /\ Fired("Finished", k) # {}
                       /\ Fired("Mixed", k) = {}
                  ELSE /\ chans'[k + 1].fade = "None"
                       /\ \A j \in Fired("Mixed", k) : ev'[j].volume = target
             ELSE /\ chans'[k + 1].fade = ch.fade
                  /\ \A j \in Fired("Mixed", k) :
                       ev'[j].volume =
                         ch.fadeVolume + TruncDiv((target - ch.fadeVolume) * elapsed, ch.fadeTime)]_vars

\* C25: a pass of Mix over a Playing channel on which FadeOut(ms), ms > 0, was called ms or
\* more milliseconds before stops the channel and fires Finished: the channel is Idle from
\* the first pass at which the fade has ended.
C25_FadeOutEndsAtDuration ==
  [][\A k \in ChannelIds :
       (/\ MixPass(k) /\ StatusOf(k) = "Playing"
        /\ chans[k + 1].fade = "Out" /\ chans[k + 1].fadeTime > 0
        /\ now - chans[k + 1].fadeStart >= chans[k + 1].fadeTime)
       => (chans'[k + 1].source = NoSource /\ Fired("Finished", k) # {})]_vars

\* The linear volume of a fade from or to volume v after q of its FadeQuarters quarters.
LinearVolume(fade, v, q) ==
  IF fade = "In" THEN (v * q) \div FadeQuarters ELSE (v * (FadeQuarters - q)) \div FadeQuarters

\* C27: in a pass of Mix over a channel fading over D ms, after q quarters of D (elapsed <=
\* D), the volume the frames are mixed at is within 1 of the linear volume: V * (D - t) / D
\* for a fade-out from V, target * t / D for a fade-in from 0.
C27_FadeVolumeLinear ==
  [][\A k \in ChannelIds :
       (/\ MixPass(k) /\ StatusOf(k) = "Playing"
        /\ chans[k + 1].fade # "None"
        /\ chans[k + 1].fadeTime % FadeQuarters = 0 /\ chans[k + 1].fadeTime > 0
        /\ now - chans[k + 1].fadeStart <= chans[k + 1].fadeTime
        /\ (now - chans[k + 1].fadeStart) % (chans[k + 1].fadeTime \div FadeQuarters) = 0)
       => LET ch == chans[k + 1]
              q == (now - ch.fadeStart) \div (ch.fadeTime \div FadeQuarters)
              v == IF ch.fade = "In" THEN EffectiveVolume(ch) ELSE ch.fadeVolume
          IN \A j \in Fired("Mixed", k) :
               /\ ev'[j].volume >= LinearVolume(ch.fade, v, q) - 1
               /\ ev'[j].volume <= LinearVolume(ch.fade, v, q) + 1]_vars

\* C21: the stored playback rate of every source and of every channel is >= 0: an
\* assignment of a negative rate is refused and leaves the stored rate as it was.
C21_RatesNeverNegative ==
  /\ \A s \in Sources : srcs[s].rate >= 0
  /\ \A k \in ChannelIds : Usable(k) => chans[k + 1].rate >= 0

\* C22: no exception raised while a channel is mixed leaves the device callback: a step of
\* Mixer.FillBuffer never ends with an exception thrown out of it.
C22_NoErrorEscapesCallback ==
  [][FillBuffer => \A j \in 1..Len(ev') : ev'[j].kind # "Threw"]_vars

\* The channel indices of a scope of OldestChannel that the call may return: all channels or
\* the members of the group, without those below reserved unless unreserved.
Eligible(group, unreserved) ==
  {k \in 0..(Len(chans) - 1) :
     /\ group # -1 => Contains(GetGroup(group), k)
     /\ unreserved \/ k >= reserved}

\* C24: OldestChannel(group, unreserved) returns a channel of the scope whose age is the
\* greatest of the scope; when unreserved is false the index is not below reserved, and
\* for a group that has members it is a member of the group.
C24_OldestChannelInScope ==
  [][\A g \in BulkTargets, u \in BOOLEAN :
       (OldestChannel(g, u) /\ last'.res = "oldest")
       => /\ Eligible(g, u) # {}
               => /\ last'.ret \in Eligible(g, u)
                  /\ \A k \in Eligible(g, u) :
                       Age(chans[last'.ret + 1], now) >= Age(chans[k + 1], now)
          /\ ~u => last'.ret >= reserved
          /\ (g # -1 /\ GetGroup(g) # <<>>) => Contains(GetGroup(g), last'.ret)]_vars

\* This step is a pass of Channel.Mix over channel 0 for SnapFrames mixer frames.
SnapPass == FillBufferOf(SnapFrames) /\ MixIndex = 0 /\ ~IsNull(chans[1])

\* m is the multiple of 50 with m <= freq * rate < m + 50, for a rate in millionths.
IsSnapOf(m, freq, rate) ==
  /\ m % 50 = 0
  /\ m * 10000 <= (freq \div 100) * rate
  /\ (freq \div 100) * rate < (m + 50) * 10000

\* The pass of this step has the effective rate 1.001 and SnapFrames frames of the source
\* left to read.
SnapExample ==
  /\ SnapPass /\ StatusOf(0) = "Playing"
  /\ EffectiveRate(chans[1], srcs) = 1001 * RateOne
  /\ srcs["sample"].length - ReadStart(chans[1]) >= SnapFrames

\* C26: when the effective rate is not 1, the source frequency of the conversion is the
\* multiple of 50 at or just below the source frequency times the rate; for the 44100 Hz
\* source at rate 1.001 it is 44100, and a pass for 4410 mixer frames reads 4410 frames of
\* the source.
C26_RateSnap ==
  [][/\ (SnapPass /\ StatusOf(0) = "Playing" /\ EffectiveRate(chans[1], srcs) # UnitRate)
        => \A j \in Fired("Mixed", 0) :
             IsSnapOf(ev'[j].freq, MixerFrequency, EffectiveRate(chans[1], srcs))
     /\ SnapExample
        => /\ Fired("Mixed", 0) # {}
           /\ \A j \in Fired("Mixed", 0) : ev'[j].freq = 44100 /\ ev'[j].read = 4410]_vars

\* Channel 0 has just been mixed at the effective rate 1.001: 4410 frames of the source were
\* read for the 4410 mixer frames, at the conversion frequency 44100.
C26_Witness ==
  /\ Usable(0) /\ chans[1].source = "sample"
  /\ EffectiveRate(chans[1], srcs) = 1001 * RateOne
  /\ \E j \in 1..Len(ev) :
       ev[j].kind = "Mixed" /\ ev[j].chan = 0 /\ ev[j].freq = 44100 /\ ev[j].read = SnapFrames

\* C26 as the specification states it: for the 44100 Hz source at rate 1.001 the snapped
\* frequency is 44150, and mixing 4410 mixer frames reads 4415 frames of the source.
C26_SnapAsStated ==
  [][SnapExample
     => /\ Fired("Mixed", 0) # {}
        /\ \A j \in Fired("Mixed", 0) : ev'[j].freq = 44150 /\ ev'[j].read = 4415]_vars

\* The level of a monitor in the order of the locks: the two monitors of the mixer
\* (callback and groups), then a channel, then a source.
Rank(l) == CASE l.kind \in {"callback", "groups"} -> 1 [] l.kind = "chan" -> 2 [] l.kind = "src" -> 3

\* A thread inside h may ask for l: l is of a later level, or h is callback and l is groups.
MayFollow(h, l) == Rank(h) < Rank(l) \/ (h = CallbackLock /\ l = GroupsLock)

\* The monitor thread t asks for next, if it asks for one.
Requests(t) == lk[t].todo # <<>> /\ Head(lk[t].todo).op = "acq"
Requested(t) == Head(lk[t].todo).lock

\* Thread t waits: another thread is inside the monitor it asks for.
Waits(t) == Requests(t) /\ Inside(Requested(t), t) # {}

\* Some threads wait for one another without end.
Deadlocked ==
  \E S \in SUBSET LockThreads :
    S # {} /\ \A t \in S : Waits(t) /\ Inside(Requested(t), t) \cap S # {}

\* C23: a thread that asks for a monitor is inside no other monitor of the same or a later
\* level (the mixer's, then a channel's, then a source's), but for groups asked for inside
\* callback; and no set of threads running the callback, Play, Stop, FadeOut,
\* AllocateChannels and the play requests on a free channel or a group wait for one another.
C23_LockOrderNoDeadlock ==
  /\ \A t \in LockThreads :
       Requests(t) => \A j \in 1..Len(lk[t].held) :
                        lk[t].held[j] = Requested(t) \/ MayFollow(lk[t].held[j], Requested(t))
  /\ ~Deadlocked

\* The callback is inside callback, channel 0 and the sample; thread 1, inside groups, waits
\* for channel 0; thread 2 waits for callback.
C23_Witness ==
  /\ lk[0].held = <<CallbackLock, ChanLock(0), SrcLock("sample")>>
  /\ lk[1].held = <<GroupsLock>> /\ Waits(1) /\ Requested(1) = ChanLock(0)
  /\ lk[2].held = <<>> /\ Waits(2) /\ Requested(2) = CallbackLock

\* C40: on an initialized mixer every slot of the channel array holds a channel, whose
\* Number is the index of the slot.
C40_EverySlotHoldsItsChannel ==
  init => \A k \in 1..Len(chans) : ~IsNull(chans[k]) /\ chans[k].number = k - 1

\* C36: the counter playing of a source is the number of channels bound to the source.
C36_PlayingCountsBindings ==
  \A s \in Sources : srcs[s].playing = Cardinality(Holders(s))

\* C37: a pass of Mix over a Playing channel whose fade of 0 ms began in this millisecond
\* ends without an exception.
C37_FadeNeverDividesByZero ==
  [][\A k \in ChannelIds :
       (/\ MixPass(k) /\ StatusOf(k) = "Playing"
        /\ chans[k + 1].fade # "None" /\ chans[k + 1].fadeTime = 0
        /\ now = chans[k + 1].fadeStart)
       => \A j \in 1..Len(ev') : ev'[j].kind # "Threw"]_vars

\* C35: an explicit play on a usable channel that ends with the invalid-argument exception
\* (a source that cannot rewind with loops # 0, or a source that cannot seek and is already
\* played) leaves the channel as it was and calls no Finished handler.
C35_FailedBindingLeavesChannel ==
  [][\A t \in Players, c \in ChannelIds, p \in BindPlays :
       (/\ Usable(c)
        /\ PlayChannel(t, c, p[1], p[2], "None", 0, Infinite)
        /\ \/ ~srcs[p[1]].canRewind /\ p[2] # 0
           \/ ~srcs[p[1]].canSeek /\ srcs[p[1]].playing > 0)
       => (chans'[c + 1] = chans[c + 1] /\ Fired("Finished", c) = {})]_vars

(* ------------------------------------------------------------------ *)
(* Spec with the steps of a request under way taken again and again.    *)
(* ------------------------------------------------------------------ *)
\* A step of thread t inside Mixer.StartPlaying(FreeChannel, ...).
RequestStep(t) == ScanFree(t) \/ ScanFreeLocked(t) \/ ScanFreeEnd(t) \/ ApplyPolicy(t)

\* A thread inside Mixer.StartPlaying keeps running.
SpecLive == Spec /\ \A t \in Requesters : WF_vars(RequestStep(t))

\* C33: every FreeChannel request that is under way returns (or throws): it does not go
\* round its passes for ever.  (A request for a source that has reached MaxPlays bindings
\* is outside the model.)
C33_RequestReturns ==
  \A t \in Requesters :
    (calls[t].pc \in InFlight)
      ~> (calls[t].pc \notin InFlight \/ srcs["sample"].playing >= MaxPlays)

\* C38: FadeOut(ms), ms > 0, on a Playing channel whose fade-in is in progress does not
\* raise the volume: a pass of Mix right after the call mixes at no more than the volume a
\* pass right before the call mixes at.
C38_FadeOutFromAppliedVolume ==
  [][\A c \in ChannelIds, ms \in 1..MaxFade :
       (/\ Usable(c) /\ StatusOf(c) = "Playing"
        /\ chans[c + 1].fade = "In" /\ chans[c + 1].fadeTime > 0
        /\ now - chans[c + 1].fadeStart <= chans[c + 1].fadeTime
        /\ ~TimedOut(chans[c + 1], now)
        /\ ChannelFadeOut(c, ms))
       => Mix(chans'[c + 1], srcs', now, FramesPerCallback, TRUE).volume
            <= Mix(chans[c + 1], srcs, now, FramesPerCallback, TRUE).volume]_vars

(* ------------------------------------------------------------------ *)
(* Looping: sources of every length up to MaxLength, plays with every   *)
(* kind of loop count, assignments of Channel.Position, and callbacks   *)
(* of LoopFrames frames.                                                *)
(* ------------------------------------------------------------------ *)
MaxLength == 2    \* longest source, in frames
LoopFrames == 2   \* the frames argument of the callback in SpecLoop

\* The plays of SpecLoop: <<source, loops>>; the stream cannot be rewound.
LoopPlays == ({"sample"} \X {0, 1, 2, Infinite}) \cup {<<"stream", 0>>}

InitLoop == \E n \in 0..MaxLength : InitWith(n, n)

NextLoop ==
  \/ Initialize
  \/ \E n \in 0..MaxChannels : AllocateChannels(n)
  \/ \E t \in Players, c \in ChannelIds, p \in LoopPlays :
       PlayChannel(t, c, p[1], p[2], "None", 0, Infinite)
  \/ \E c \in ChannelIds : ChannelStop(c)
  \/ \E c \in ChannelIds, v \in 0..MaxLength : ChannelSetPosition(c, v)
  \/ FillBufferOf(LoopFrames)

SpecLoop == InitLoop /\ [][NextLoop]_vars

\* C34: every pass of Channel.Mix returns, whatever the length of the source and the loop
\* count: the callback is never left inside a read loop that does not end.
C34_EveryPassReturns == cb # -2

\* This step is the pass of Channel.Mix over channel k in a callback of SpecLoop.
LoopPass(k) == FillBufferOf(LoopFrames) /\ MixIndex = k /\ ~IsNull(chans[k + 1])

\* The frames that channel ch has left to play before its source ends with loops == 0.
Remaining(ch, ss) == (ch.loops + 1) * ss[ch.source].length - MixStart(ch, ss)

\* The step mixed n frames of channel k's source.
FramesMixed(k, n) ==
  IF n = 0 THEN Fired("Mixed", k) = {} ELSE \E j \in Fired("Mixed", k) : ev'[j].read = n

MixFrom(ch, p) == Mix(ch, [srcs EXCEPT ![ch.source].pos = p], now, LoopFrames, TRUE)

RaceSource(t) == IF t = 1 THEN "sample" ELSE "stream"

NextRace ==
  \/ Quiet /\ Initialize
  \/ Quiet /\ \E n \in 0..MaxChannels : AllocateChannels(n)
  \/ \E p \in Policies : SetPlayPolicy(p)
  \/ \E t \in Threads :
       MixerStartPlaying(t, FreeChannel, RaceSource(t), 0, "None", 0, Infinite)
  \/ \E t \in Threads : ScanFree(t)
  \/ \E t \in Threads : ScanFreeLocked(t)
  \/ \E t \in Threads : ScanFreeEnd(t)
  \/ \E t \in Threads : ApplyPolicy(t)
  \/ \E c \in ChannelIds : ChannelStop(c)

SpecRace == Init /\ [][NextRace]_vars

\* C39: when two threads play different sources on FreeChannel at the same time, a request
\* that binds a channel in its scan of the free channels binds one that was Idle when it took
\* the channel's lock: it returns that channel's index with its own source bound, stops no
\* playback (Finished does not fire) and leaves the other channels alone; a channel that is
\* bound to a source is only ever bound anew by the play policy.
C39_ConcurrentPlaysTakeDistinctChannels ==
  [][/\ \A t \in Threads, k \in ChannelIds :
          (calls[t].pc = "lock" /\ ScanFreeLocked(t) /\ Fired("Bound", k) # {})
          => /\ chans[k + 1].source = NoSource
             /\ Fired("Finished", k) = {}
             /\ chans'[k + 1].source = calls[t].src
             /\ last' = [thread |-> t, target |-> FreeChannel, src |-> calls[t].src,
                         res |-> "ret", ret |-> k]
             /\ \A j \in ChannelIds \ {k} : j < Len(chans) => chans'[j + 1] = chans[j + 1]
     /\ \A k \in ChannelIds :
          (Bound(k) /\ Fired("Bound", k) # {})
          => \E t \in Threads : calls[t].pc = "policy" /\ ApplyPolicy(t)]_vars

\* Thread 1 has just bound the sample to channel 0 and returned 0 while thread 2, which saw
\* channel 0 Idle, waits for the lock of channel 0 with the stream.
C39_Witness ==
  /\ last = [thread |-> 1, target |-> FreeChannel, src |-> "sample", res |-> "ret", ret |-> 0]
  /\ Usable(0) /\ chans[1].source = "sample"
  /\ calls[2].pc = "lock" /\ calls[2].i = 0 /\ calls[2].src = "stream"
====
